---- MODULE Spec2Model ----
(***************************************************************************)
(* A model of the wire layer of dajohi/dcrd: the addrv2 address-list       *)
(* message (wire/netaddressv2.go) and the six mixing messages              *)
(* (wire/msgmix*.go).  Byte streams are sequences of 0..255.  The state    *)
(* holds one MsgAddrV2 and one mixing message receiver together with what  *)
(* the last call on each returned, wrote and read.                         *)
(***************************************************************************)
EXTENDS Integers, Sequences, FiniteSets, TLC

VARIABLES
    AddrList,   \* msg.AddrList of the MsgAddrV2 under test
    op,         \* the last call made on it
    err,        \* the error that call returned
    pver,       \* the protocol version passed to the last BtcEncode/BtcDecode
    arg,        \* the records passed to the last AddAddress/AddAddresses
    w,          \* the bytes the last call wrote to its io.Writer (a bytes.Buffer)
    r,          \* the contents of the io.Reader handed to the last call
    rpos,       \* how many bytes of r the last call consumed
    mixMsg,     \* the mixing message under test (the receiver of its methods)
    ret,        \* the value the last call returned besides its error
    upnp        \* the call of discover under way: its position, locals and result

vars == <<AddrList, op, err, pver, arg, w, r, rpos, mixMsg, ret, upnp>>

(***************************************************************************)
(* Program constants.                                                      *)
(***************************************************************************)
MaxAddrPerV2Msg == 1000

UnknownAddressType == 0

IPv4Address == 1

IPv6Address == 2

TORv3Address == 3

\* protocol versions, as the tests of netaddressv2.go number them
AddrV2Version == 10

RelayTORv3Version == 11

(***************************************************************************)
(* Bounds of the model.                                                    *)
(***************************************************************************)
\* the highest protocol version tried
MaxPVer == 11

\* lists shorter than this grow by any record; longer ones only by the filler
MaxSmall == 2

\* lists up to this length are decoded into from every wire image
MaxShort == 8

\* how far below and above MaxAddrPerV2Msg the bulk batches reach
BulkSpread == 1

PVers == {0} \cup ((AddrV2Version - 1)..MaxPVer)

(***************************************************************************)
(* Errors.                                                                 *)
(***************************************************************************)
nil == "nil"

ErrMsgInvalidForPVer == "ErrMsgInvalidForPVer"

ErrTooManyAddrs == "ErrTooManyAddrs"

ErrTooFewAddrs == "ErrTooFewAddrs"

ErrInvalidMsg == "ErrInvalidMsg"

ioEOF == "io.EOF"

ioErrUnexpectedEOF == "io.ErrUnexpectedEOF"

(***************************************************************************)
(* Element codec (wire/common.go is not among the sources; modelled from   *)
(* section 4.1 of the specification).  Integers of the model stay below    *)
(* 2^31 in magnitude; a 64-bit field carries their sign extension.         *)
(***************************************************************************)
Zeros(n) == [i \in 1..n |-> 0]

\* byte i (1-based) of the little-endian two's complement form of n
LEByte(n, i) ==
    IF i <= 4 THEN (n \div (256 ^ (i - 1))) % 256
    ELSE IF n < 0 THEN 255 ELSE 0

\* writeElement of a fixed-width integer: width bytes, little-endian
putLE(n, width) == [i \in 1..width |-> LEByte(n, i)]

\* the unsigned value of the little-endian bytes b[from .. from+width-1]
getLE(b, from, width) ==
    LET byte(i) == b[from + i - 1]
        RECURSIVE sum(_)
        sum(i) == IF i > width THEN 0
                  ELSE IF byte(i) = 0 THEN sum(i + 1)
                  ELSE byte(i) * (256 ^ (i - 1)) + sum(i + 1)
    IN sum(1)

\* the signed value of the 8 little-endian bytes b[from .. from+7]
getInt64(b, from) ==
    IF b[from + 7] < 128 THEN getLE(b, from, 8)
    ELSE -(getLE([i \in 1..8 |-> 255 - b[from + i - 1]], 1, 8)) - 1

\* io.ReadFull of n bytes at offset pos (0-based count of bytes consumed):
\* a short read consumes what is left and fails
readFull(b, pos, n) ==
    IF Len(b) - pos >= n THEN [err |-> nil, pos |-> pos + n]
    ELSE IF Len(b) = pos THEN [err |-> ioEOF, pos |-> pos]
    ELSE [err |-> ioErrUnexpectedEOF, pos |-> Len(b)]

\* VarIntSerializeSize
VarIntSerializeSize(val) ==
    IF val < 253 THEN 1 ELSE IF val <= 65535 THEN 3 ELSE 5

\* WriteVarInt: the minimal compact-size form
WriteVarInt(val) ==
    IF val < 253 THEN <<val>>
    ELSE IF val <= 65535 THEN <<253>> \o putLE(val, 2)
    ELSE <<254>> \o putLE(val, 4)

\* ReadVarInt: the discriminant byte, then 0, 2, 4 or 8 bytes
ReadVarInt(b, pos) ==
    LET d == readFull(b, pos, 1) IN
    IF d.err # nil THEN [err |-> d.err, val |-> 0, pos |-> d.pos]
    ELSE LET disc == b[pos + 1]
             width == IF disc = 255 THEN 8 ELSE IF disc = 254 THEN 4
                      ELSE IF disc = 253 THEN 2 ELSE 0
             rest == readFull(b, d.pos, width)
         IN IF width = 0 THEN [err |-> nil, val |-> disc, pos |-> d.pos]
            ELSE IF rest.err # nil
                 THEN [err |-> rest.err, val |-> 0, pos |-> rest.pos]
            ELSE [err |-> nil, val |-> getLE(b, d.pos + 1, width), pos |-> rest.pos]

(***************************************************************************)
(* NetAddressV2.                                                           *)
(***************************************************************************)
\* time.Unix(sec, nsec)
timeUnix(sec, nsec) == [sec |-> sec, nsec |-> nsec]

NewNetAddressV2(netAddressType, addrBytes, port, timestamp, services) ==
    [Type |-> netAddressType, IP |-> addrBytes, Port |-> port,
     Services |-> services, Timestamp |-> timestamp]

\* net.IP.To16: a 4-byte address becomes its IPv4-in-IPv6 form, a 16-byte one
\* is itself, any other length gives nil
To16(ip) ==
    IF Len(ip) = 4 THEN Zeros(10) \o <<255, 255>> \o ip
    ELSE IF Len(ip) = 16 THEN ip
    ELSE <<>>

\* copy(dst[:], src) into a zeroed array of n bytes
copyInto(n, src) == [i \in 1..n |-> IF i <= Len(src) THEN src[i] ELSE 0]

ZeroNetAddressV2 ==
    [Type |-> UnknownAddressType, IP |-> <<>>, Port |-> 0, Services |-> 0,
     Timestamp |-> timeUnix(0, 0)]

\* variant: a TORv3Address record is read at every protocol version
readNetAddressV2AnyVersion(b, pos, pv) ==
    LET t == readFull(b, pos, 8)
        s == readFull(b, t.pos, 8)
        k == readFull(b, s.pos, 1)
        na0 == ZeroNetAddressV2
    IN
    IF t.err # nil THEN [err |-> t.err, na |-> na0, pos |-> t.pos]
    ELSE LET na1 == [na0 EXCEPT !.Timestamp = timeUnix(getInt64(b, pos + 1), 0)] IN
    IF s.err # nil THEN [err |-> s.err, na |-> na1, pos |-> s.pos]
    ELSE LET na2 == [na1 EXCEPT !.Services = getLE(b, t.pos + 1, 8)] IN
    IF k.err # nil THEN [err |-> k.err, na |-> na2, pos |-> k.pos]
    ELSE LET na3 == [na2 EXCEPT !.Type = b[s.pos + 1]]
             width == IF na3.Type = IPv4Address THEN 4
                      ELSE IF na3.Type = IPv6Address THEN 16
                      ELSE IF na3.Type = TORv3Address THEN 32
                      ELSE 0
             a == readFull(b, k.pos, width)
             p == readFull(b, a.pos, 2)
         IN
    IF width = 0 THEN [err |-> ErrInvalidMsg, na |-> na3, pos |-> k.pos]
    ELSE IF a.err # nil THEN [err |-> a.err, na |-> na3, pos |-> a.pos]
    ELSE LET na4 == [na3 EXCEPT !.IP = SubSeq(b, k.pos + 1, k.pos + width)] IN
    IF p.err # nil THEN [err |-> p.err, na |-> na4, pos |-> p.pos]
    ELSE [err |-> nil, na |-> [na4 EXCEPT !.Port = getLE(b, a.pos + 1, 2)],
          pos |-> p.pos]

\* readNetAddressV2: the record read from b at offset pos, the error and the
\* offset after the call
readNetAddressV2(b, pos, pv) ==
    LET t == readFull(b, pos, 8)
        s == readFull(b, t.pos, 8)
        k == readFull(b, s.pos, 1)
        na0 == ZeroNetAddressV2
    IN
    IF t.err # nil THEN [err |-> t.err, na |-> na0, pos |-> t.pos]
    ELSE LET na1 == [na0 EXCEPT !.Timestamp = timeUnix(getInt64(b, pos + 1), 0)] IN
    IF s.err # nil THEN [err |-> s.err, na |-> na1, pos |-> s.pos]
    ELSE LET na2 == [na1 EXCEPT !.Services = getLE(b, t.pos + 1, 8)] IN
    IF k.err # nil THEN [err |-> k.err, na |-> na2, pos |-> k.pos]
    ELSE LET na3 == [na2 EXCEPT !.Type = b[s.pos + 1]]
             width == IF na3.Type = IPv4Address THEN 4
                      ELSE IF na3.Type = IPv6Address THEN 16
                      ELSE IF na3.Type = TORv3Address /\ pv >= RelayTORv3Version THEN 32
                      ELSE 0
             a == readFull(b, k.pos, width)
             p == readFull(b, a.pos, 2)
         IN
    IF width = 0 THEN [err |-> ErrInvalidMsg, na |-> na3, pos |-> k.pos]
    ELSE IF a.err # nil THEN [err |-> a.err, na |-> na3, pos |-> a.pos]
    ELSE LET na4 == [na3 EXCEPT !.IP = SubSeq(b, k.pos + 1, k.pos + width)] IN
    IF p.err # nil THEN [err |-> p.err, na |-> na4, pos |-> p.pos]
    ELSE [err |-> nil, na |-> [na4 EXCEPT !.Port = getLE(b, a.pos + 1, 2)],
          pos |-> p.pos]

\* writeNetAddressV2 writing the services before the timestamp
writeNetAddressV2ServicesFirst(pv, na) ==
    LET head == putLE(na.Services, 8) \o putLE(na.Timestamp.sec, 8) \o <<na.Type>> IN
    IF na.Type = IPv4Address
    THEN [err |-> nil, out |-> head \o copyInto(4, na.IP) \o putLE(na.Port, 2)]
    ELSE IF na.Type = IPv6Address
    THEN [err |-> nil, out |-> head \o copyInto(16, To16(na.IP)) \o putLE(na.Port, 2)]
    ELSE IF na.Type = TORv3Address /\ pv >= RelayTORv3Version
    THEN [err |-> nil,
          out |-> head \o (IF Len(na.IP) = 32 THEN copyInto(32, na.IP) ELSE Zeros(32))
                       \o putLE(na.Port, 2)]
    ELSE [err |-> ErrInvalidMsg, out |-> head]

\* writeNetAddressV2 writing a TORv3 record at every protocol version
writeNetAddressV2AnyVersion(pv, na) ==
    LET head == putLE(na.Timestamp.sec, 8) \o putLE(na.Services, 8) \o <<na.Type>> IN
    IF na.Type = IPv4Address
    THEN [err |-> nil, out |-> head \o copyInto(4, na.IP) \o putLE(na.Port, 2)]
    ELSE IF na.Type = IPv6Address
    THEN [err |-> nil, out |-> head \o copyInto(16, To16(na.IP)) \o putLE(na.Port, 2)]
    ELSE IF na.Type = TORv3Address
    THEN [err |-> nil,
          out |-> head \o (IF Len(na.IP) = 32 THEN copyInto(32, na.IP) ELSE Zeros(32))
                       \o putLE(na.Port, 2)]
    ELSE [err |-> ErrInvalidMsg, out |-> head]

\* writeNetAddressV2: the error and the bytes written to the writer
\* variant: a TORv3 record whose IP is not of 32 bytes is refused
writeNetAddressV2StrictTORv3(pv, na) ==
    LET head == putLE(na.Timestamp.sec, 8) \o putLE(na.Services, 8) \o <<na.Type>> IN
    IF na.Type = IPv4Address
    THEN [err |-> nil, out |-> head \o copyInto(4, na.IP) \o putLE(na.Port, 2)]
    ELSE IF na.Type = IPv6Address
    THEN [err |-> nil, out |-> head \o copyInto(16, To16(na.IP)) \o putLE(na.Port, 2)]
    ELSE IF na.Type = TORv3Address /\ pv >= RelayTORv3Version /\ Len(na.IP) = 32
    THEN [err |-> nil, out |-> head \o copyInto(32, na.IP) \o putLE(na.Port, 2)]
    ELSE [err |-> ErrInvalidMsg, out |-> head]

writeNetAddressV2(pv, na) ==
    LET head == putLE(na.Timestamp.sec, 8) \o putLE(na.Services, 8) \o <<na.Type>> IN
    IF na.Type = IPv4Address
    THEN [err |-> nil, out |-> head \o copyInto(4, na.IP) \o putLE(na.Port, 2)]
    ELSE IF na.Type = IPv6Address
    THEN [err |-> nil, out |-> head \o copyInto(16, To16(na.IP)) \o putLE(na.Port, 2)]
    ELSE IF na.Type = TORv3Address /\ pv >= RelayTORv3Version
    THEN [err |-> nil,
          out |-> head \o (IF Len(na.IP) = 32 THEN copyInto(32, na.IP) ELSE Zeros(32))
                       \o putLE(na.Port, 2)]
    ELSE [err |-> ErrInvalidMsg, out |-> head]

(***************************************************************************)
(* MsgAddrV2.                                                              *)
(***************************************************************************)
\* AddAddress with the limit tested one entry late
AddAddressLateLimit(list, na) ==
    IF Len(list) > MaxAddrPerV2Msg
    THEN [err |-> ErrTooManyAddrs, list |-> list]
    ELSE [err |-> nil, list |-> Append(list, na)]

\* MsgAddrV2.AddAddress on a list
MsgAddrV2AddAddress(list, na) ==
    IF Len(list) + 1 > MaxAddrPerV2Msg
    THEN [err |-> ErrTooManyAddrs, list |-> list]
    ELSE [err |-> nil, list |-> Append(list, na)]

\* MsgAddrV2.AddAddresses: AddAddress for netAddrs[lo..hi] in order, stopping
\* at the first error (the range is halved so that the evaluation stays shallow)
RECURSIVE addAddressesRange(_, _, _, _)
addAddressesRange(list, netAddrs, lo, hi) ==
    IF lo > hi THEN [err |-> nil, list |-> list]
    ELSE IF lo = hi THEN MsgAddrV2AddAddress(list, netAddrs[lo])
    ELSE LET mid == (lo + hi) \div 2
             left == addAddressesRange(list, netAddrs, lo, mid)
         IN IF left.err # nil THEN left
            ELSE addAddressesRange(left.list, netAddrs, mid + 1, hi)

\* AddAddresses as a transaction: all of the records or none
AddAddressesAllOrNothing(list, netAddrs) ==
    IF Len(list) + Len(netAddrs) > MaxAddrPerV2Msg
    THEN [err |-> ErrTooManyAddrs, list |-> list]
    ELSE [err |-> nil, list |-> list \o netAddrs]

MsgAddrV2AddAddresses(list, netAddrs) ==
    addAddressesRange(list, netAddrs, 1, Len(netAddrs))

\* the loop of BtcDecode over records lo..hi (1-based), from reader offset pos
RECURSIVE decodeRange(_, _, _, _, _, _)
decodeRange(b, pos, pv, lo, hi, list) ==
    IF lo > hi THEN [err |-> nil, list |-> list, pos |-> pos]
    ELSE IF lo = hi
    THEN LET rec == readNetAddressV2(b, pos, pv) IN
         IF rec.err # nil THEN [err |-> rec.err, list |-> list, pos |-> rec.pos]
         ELSE [err |-> nil, list |-> MsgAddrV2AddAddress(list, rec.na).list,
               pos |-> rec.pos]
    ELSE LET mid == (lo + hi) \div 2
             left == decodeRange(b, pos, pv, lo, mid, list)
         IN IF left.err # nil THEN left
            ELSE decodeRange(b, left.pos, pv, mid + 1, hi, left.list)

\* BtcDecode appending to the list the receiver already holds
BtcDecodeAppending(list, b, pv) ==
    IF pv < AddrV2Version THEN [err |-> ErrMsgInvalidForPVer, list |-> list, pos |-> 0]
    ELSE LET c == ReadVarInt(b, 0) IN
    IF c.err # nil THEN [err |-> c.err, list |-> list, pos |-> c.pos]
    ELSE IF c.val = 0 THEN [err |-> ErrTooFewAddrs, list |-> list, pos |-> c.pos]
    ELSE IF c.val > MaxAddrPerV2Msg
    THEN [err |-> ErrTooManyAddrs, list |-> list, pos |-> c.pos]
    ELSE decodeRange(b, c.pos, pv, 1, c.val, list)

\* BtcDecode testing the protocol version after it has read the count
BtcDecodeLateVersionCheck(list, b, pv) ==
    LET c == ReadVarInt(b, 0) IN
    IF c.err # nil THEN [err |-> c.err, list |-> list, pos |-> c.pos]
    ELSE IF pv < AddrV2Version
    THEN [err |-> ErrMsgInvalidForPVer, list |-> list, pos |-> c.pos]
    ELSE IF c.val = 0 THEN [err |-> ErrTooFewAddrs, list |-> list, pos |-> c.pos]
    ELSE IF c.val > MaxAddrPerV2Msg
    THEN [err |-> ErrTooManyAddrs, list |-> list, pos |-> c.pos]
    ELSE decodeRange(b, c.pos, pv, 1, c.val, <<>>)

\* MsgAddrV2.BtcDecode: the error, msg.AddrList and the reader offset afterwards
\* variant: the list is allocated before the count is checked
BtcDecodeEarlyAllocation(list, b, pv) ==
    IF pv < AddrV2Version THEN [err |-> ErrMsgInvalidForPVer, list |-> list, pos |-> 0]
    ELSE LET c == ReadVarInt(b, 0) IN
    IF c.err # nil THEN [err |-> c.err, list |-> list, pos |-> c.pos]
    ELSE IF c.val = 0 THEN [err |-> ErrTooFewAddrs, list |-> <<>>, pos |-> c.pos]
    ELSE IF c.val > MaxAddrPerV2Msg
    THEN [err |-> ErrTooManyAddrs, list |-> <<>>, pos |-> c.pos]
    ELSE decodeRange(b, c.pos, pv, 1, c.val, <<>>)

\* variant: a failure while reading a record leaves the list as it was
BtcDecodeAtomic(list, b, pv) ==
    IF pv < AddrV2Version THEN [err |-> ErrMsgInvalidForPVer, list |-> list, pos |-> 0]
    ELSE LET c == ReadVarInt(b, 0) IN
    IF c.err # nil THEN [err |-> c.err, list |-> list, pos |-> c.pos]
    ELSE IF c.val = 0 THEN [err |-> ErrTooFewAddrs, list |-> list, pos |-> c.pos]
    ELSE IF c.val > MaxAddrPerV2Msg
    THEN [err |-> ErrTooManyAddrs, list |-> list, pos |-> c.pos]
    ELSE LET res == decodeRange(b, c.pos, pv, 1, c.val, <<>>) IN
         IF res.err # nil THEN [res EXCEPT !.list = list] ELSE res

MsgAddrV2BtcDecode(list, b, pv) ==
    IF pv < AddrV2Version THEN [err |-> ErrMsgInvalidForPVer, list |-> list, pos |-> 0]
    ELSE LET c == ReadVarInt(b, 0) IN
    IF c.err # nil THEN [err |-> c.err, list |-> list, pos |-> c.pos]
    ELSE IF c.val = 0 THEN [err |-> ErrTooFewAddrs, list |-> list, pos |-> c.pos]
    ELSE IF c.val > MaxAddrPerV2Msg
    THEN [err |-> ErrTooManyAddrs, list |-> list, pos |-> c.pos]
    ELSE decodeRange(b, c.pos, pv, 1, c.val, <<>>)

\* the loop of BtcEncode over records lo..hi: the error and the bytes written
RECURSIVE encodeRange(_, _, _, _)
encodeRange(list, pv, lo, hi) ==
    IF lo > hi THEN [err |-> nil, out |-> <<>>]
    ELSE IF lo = hi THEN writeNetAddressV2(pv, list[lo])
    ELSE LET mid == (lo + hi) \div 2
             left == encodeRange(list, pv, lo, mid)
         IN IF left.err # nil THEN left
            ELSE LET right == encodeRange(list, pv, mid + 1, hi) IN
                 [err |-> right.err, out |-> left.out \o right.out]

\* BtcEncode refusing a list that holds exactly the maximum
BtcEncodeStrictLimit(list, pv) ==
    IF pv < AddrV2Version THEN [err |-> ErrMsgInvalidForPVer, out |-> <<>>]
    ELSE IF Len(list) >= MaxAddrPerV2Msg THEN [err |-> ErrTooManyAddrs, out |-> <<>>]
    ELSE IF Len(list) = 0 THEN [err |-> ErrTooFewAddrs, out |-> <<>>]
    ELSE LET recs == encodeRange(list, pv, 1, Len(list)) IN
         [err |-> recs.err, out |-> WriteVarInt(Len(list)) \o recs.out]

\* BtcEncode handing the writer nothing unless every record was written
BtcEncodeBuffered(list, pv) ==
    IF pv < AddrV2Version THEN [err |-> ErrMsgInvalidForPVer, out |-> <<>>]
    ELSE IF Len(list) > MaxAddrPerV2Msg THEN [err |-> ErrTooManyAddrs, out |-> <<>>]
    ELSE IF Len(list) = 0 THEN [err |-> ErrTooFewAddrs, out |-> <<>>]
    ELSE LET recs == encodeRange(list, pv, 1, Len(list)) IN
         IF recs.err # nil THEN [err |-> recs.err, out |-> <<>>]
         ELSE [err |-> nil, out |-> WriteVarInt(Len(list)) \o recs.out]

\* MsgAddrV2.BtcEncode: the error and the bytes written
MsgAddrV2BtcEncode(list, pv) ==
    IF pv < AddrV2Version THEN [err |-> ErrMsgInvalidForPVer, out |-> <<>>]
    ELSE IF Len(list) > MaxAddrPerV2Msg THEN [err |-> ErrTooManyAddrs, out |-> <<>>]
    ELSE IF Len(list) = 0 THEN [err |-> ErrTooFewAddrs, out |-> <<>>]
    ELSE LET recs == encodeRange(list, pv, 1, Len(list)) IN
         [err |-> recs.err, out |-> WriteVarInt(Len(list)) \o recs.out]

\* maxNetAddressPayloadV2 with the TORv3 size one version late
maxNetAddressPayloadV2LateTORv3(pv) ==
    IF pv <= RelayTORv3Version THEN 8 + 8 + 1 + 16 + 2
    ELSE 8 + 8 + 1 + 32 + 2

\* maxNetAddressPayloadV2 sized for an IPv6 address at every version
maxNetAddressPayloadV2IPv6Only(pv) ==
    8 + 8 + 1 + 16 + 2

\* maxNetAddressPayloadV2: timestampSize + servicesSize + addressTypeSize +
\* maxAddressSize + portSize
maxNetAddressPayloadV2(pv) ==
    IF pv < RelayTORv3Version THEN 8 + 8 + 1 + 16 + 2
    ELSE 8 + 8 + 1 + 32 + 2

\* MaxPayloadLength without the test of the protocol version
MaxPayloadLengthUnchecked(pv) ==
    VarIntSerializeSize(MaxAddrPerV2Msg) + (MaxAddrPerV2Msg * maxNetAddressPayloadV2(pv))

\* MsgAddrV2.MaxPayloadLength
MsgAddrV2MaxPayloadLength(pv) ==
    IF pv < AddrV2Version THEN 0
    ELSE VarIntSerializeSize(MaxAddrPerV2Msg)
         + (MaxAddrPerV2Msg * maxNetAddressPayloadV2(pv))

(***************************************************************************)
(* Element codec, continued: the elements of the mixing messages           *)
(* (wire/common.go is not among the sources; modelled from sections 3 and  *)
(* 4.1 of the specification).  An element type is a record:                *)
(*   [t |-> "array"]            a fixed-size byte array, written as it is   *)
(*   [t |-> "uint", n |-> k]    an unsigned integer of k bytes              *)
(*   [t |-> "int", n |-> k]     a signed integer of k bytes                 *)
(*   [t |-> "bool"]             one byte                                    *)
(*   [t |-> "var"]              a string or byte slice, count-prefixed      *)
(*   [t |-> "list", of |-> e]   a count-prefixed list of elements e         *)
(*   [t |-> "struct", fields |-> f]  the fields f in order                  *)
(***************************************************************************)
TArray(n) == [t |-> "array", n |-> n]

TUint(n) == [t |-> "uint", n |-> n]

TInt(n) == [t |-> "int", n |-> n]

TBool == [t |-> "bool"]

TVar == [t |-> "var"]

TList(e) == [t |-> "list", of |-> e]

TStruct(f) == [t |-> "struct", fields |-> f]

\* a field handed to readElements by pointer (&msg.X), or by value (msg.X)
Ptr(name, ty) == [name |-> name, ty |-> ty, ptr |-> TRUE]

Val(name, ty) == [name |-> name, ty |-> ty, ptr |-> FALSE]

\* the error of reading into something that is no pointer
errNotAPointer == "binary.Read: invalid type"

\* what readElement does with a destination passed by value: it cannot
\* store into the caller's field; it either fails or discards what it read
ByValueOutcomes == {"fail", "discard"}

\* the signed value of the n little-endian bytes b[from .. from+n-1]
getInt(b, from, n) ==
    IF b[from + n - 1] < 128 THEN getLE(b, from, n)
    ELSE -(getLE([i \in 1..n |-> 255 - b[from + i - 1]], 1, n)) - 1

RECURSIVE writeElement(_, _)
writeElement(ty, v) ==
    LET RECURSIVE each(_)
        each(i) == IF i > Len(v) THEN <<>>
                   ELSE writeElement(ty.of, v[i]) \o each(i + 1)
        RECURSIVE fields(_)
        fields(i) == IF i > Len(ty.fields) THEN <<>>
                     ELSE writeElement(ty.fields[i].ty, v[ty.fields[i].name])
                          \o fields(i + 1)
    IN CASE ty.t = "array" -> v
         [] ty.t = "uint" -> putLE(v, ty.n)
         [] ty.t = "int" -> putLE(v, ty.n)
         [] ty.t = "bool" -> IF v THEN <<1>> ELSE <<0>>
         [] ty.t = "var" -> WriteVarInt(Len(v)) \o v
         [] ty.t = "list" -> WriteVarInt(Len(v)) \o each(1)
         [] ty.t = "struct" -> fields(1)

\* the zero value of an element type
RECURSIVE zeroValue(_)
zeroValue(ty) ==
    CASE ty.t = "array" -> Zeros(ty.n)
      [] ty.t = "uint" -> 0
      [] ty.t = "int" -> 0
      [] ty.t = "bool" -> FALSE
      [] ty.t = "var" -> <<>>
      [] ty.t = "list" -> <<>>
      [] ty.t = "struct" ->
            [name \in {ty.fields[i].name : i \in 1..Len(ty.fields)} |->
                zeroValue((CHOOSE f \in {ty.fields[i] : i \in 1..Len(ty.fields)} :
                              f.name = name).ty)]

\* readElement: the value read from b at offset pos, the error and the offset
\* after the call; old is the destination's value before the call
RECURSIVE readElement(_, _, _, _)
readElement(ty, old, b, pos) ==
    LET fixed(n) == readFull(b, pos, n)
        RECURSIVE each(_, _, _, _)
        each(i, count, at, acc) ==
            IF i > count THEN [err |-> nil, val |-> acc, pos |-> at]
            ELSE LET e == readElement(ty.of, zeroValue(ty.of), b, at) IN
                 IF e.err # nil THEN [err |-> e.err, val |-> old, pos |-> e.pos]
                 ELSE each(i + 1, count, e.pos, Append(acc, e.val))
        RECURSIVE fields(_, _, _)
        fields(i, at, acc) ==
            IF i > Len(ty.fields) THEN [err |-> nil, val |-> acc, pos |-> at]
            ELSE LET f == ty.fields[i]
                     e == readElement(f.ty, acc[f.name], b, at)
                 IN IF e.err # nil THEN [err |-> e.err, val |-> acc, pos |-> e.pos]
                    ELSE fields(i + 1, e.pos, [acc EXCEPT ![f.name] = e.val])
    IN CASE ty.t = "array" ->
              LET x == fixed(ty.n) IN
              IF x.err # nil THEN [err |-> x.err, val |-> old, pos |-> x.pos]
              ELSE [err |-> nil, val |-> SubSeq(b, pos + 1, pos + ty.n), pos |-> x.pos]
         [] ty.t = "uint" ->
              LET x == fixed(ty.n) IN
              IF x.err # nil THEN [err |-> x.err, val |-> old, pos |-> x.pos]
              ELSE [err |-> nil, val |-> getLE(b, pos + 1, ty.n), pos |-> x.pos]
         [] ty.t = "int" ->
              LET x == fixed(ty.n) IN
              IF x.err # nil THEN [err |-> x.err, val |-> old, pos |-> x.pos]
              ELSE [err |-> nil, val |-> getInt(b, pos + 1, ty.n), pos |-> x.pos]
         [] ty.t = "bool" ->
              LET x == fixed(1) IN
              IF x.err # nil THEN [err |-> x.err, val |-> old, pos |-> x.pos]
              ELSE [err |-> nil, val |-> (b[pos + 1] # 0), pos |-> x.pos]
         [] ty.t = "var" ->
              LET c == ReadVarInt(b, pos)
                  x == readFull(b, c.pos, c.val)
              IN IF c.err # nil THEN [err |-> c.err, val |-> old, pos |-> c.pos]
                 ELSE IF x.err # nil THEN [err |-> x.err, val |-> old, pos |-> x.pos]
                 ELSE [err |-> nil, val |-> SubSeq(b, c.pos + 1, c.pos + c.val),
                       pos |-> x.pos]
         [] ty.t = "list" ->
              LET c == ReadVarInt(b, pos) IN
              IF c.err # nil THEN [err |-> c.err, val |-> old, pos |-> c.pos]
              ELSE each(1, c.val, c.pos, <<>>)
         [] ty.t = "struct" -> fields(1, pos, old)

\* writeElements into a bytes.Buffer: the fields of msg in the order given
RECURSIVE writeElementsFrom(_, _, _)
writeElementsFrom(fs, msg, i) ==
    IF i > Len(fs) THEN <<>>
    ELSE writeElement(fs[i].ty, msg[fs[i].name]) \o writeElementsFrom(fs, msg, i + 1)

writeElements(fs, msg) == writeElementsFrom(fs, msg, 1)

\* readElements: the fields in the order given, stopping at the first error;
\* a field passed by value is never stored into msg
RECURSIVE readElementsFrom(_, _, _, _, _, _)
readElementsFrom(fs, msg, b, pos, bv, i) ==
    IF i > Len(fs) THEN [err |-> nil, msg |-> msg, pos |-> pos]
    ELSE LET f == fs[i]
             e == readElement(f.ty, msg[f.name], b, pos)
         IN IF e.err # nil THEN [err |-> e.err, msg |-> msg, pos |-> e.pos]
            ELSE IF f.ptr
            THEN readElementsFrom(fs, [msg EXCEPT ![f.name] = e.val], b, e.pos, bv, i + 1)
            ELSE IF bv = "fail" THEN [err |-> errNotAPointer, msg |-> msg, pos |-> e.pos]
            ELSE readElementsFrom(fs, msg, b, e.pos, bv, i + 1)

readElements(fs, msg, b, bv) == readElementsFrom(fs, msg, b, 0, bv, 1)

(***************************************************************************)
(* The mixing messages.  A message is a record of its fields and its kind. *)
(***************************************************************************)
\* wire/protocol.go is not among the sources
MixVersion == 10

MixPVers == {0} \cup ((MixVersion - 1)..MaxPVer)

OutPoint == TStruct(<<Ptr("Hash", TArray(32)), Ptr("Index", TUint(4)), Ptr("Tree", TInt(1))>>)

TxOut == TStruct(<<Ptr("Value", TInt(8)), Ptr("Version", TUint(2)), Ptr("PkScript", TVar)>>)

MsgMixDCVector == TStruct(<<Ptr("N", TInt(8)), Ptr("Msize", TInt(8)), Ptr("Data", TVar)>>)

\* the arguments of writeElements in MsgMixPR.BtcEncode
MsgMixPREncodeFields ==
    <<Ptr("Signature", TArray(64)), Ptr("Identity", TArray(32)), Ptr("Amount", TInt(8)),
      Ptr("ScriptClass", TVar), Ptr("TxVersion", TUint(2)), Ptr("LockTime", TUint(4)),
      Ptr("Expiry", TUint(4)), Ptr("MessageCount", TUint(4)),
      Ptr("UTXOs", TList(OutPoint)), Ptr("Change", TxOut)>>

\* the arguments of readElements in MsgMixPR.BtcDecode
MsgMixPRDecodeFields ==
    <<Ptr("Signature", TArray(64)), Ptr("Identity", TArray(32)), Ptr("Amount", TInt(8)),
      Ptr("ScriptClass", TVar), Ptr("TxVersion", TUint(2)), Val("LockTime", TUint(4)),
      Val("Expiry", TUint(4)), Val("MessageCount", TUint(4)),
      Ptr("UTXOs", TList(OutPoint)), Ptr("Change", TxOut)>>

\* the arguments of writeElements in MsgMixPR.Data
MsgMixPRDataFields ==
    <<Ptr("Amount", TInt(8)), Ptr("ScriptClass", TVar), Ptr("TxVersion", TUint(2)),
      Ptr("LockTime", TUint(4)), Ptr("Expiry", TUint(4)), Ptr("MessageCount", TUint(4)),
      Ptr("UTXOs", TList(OutPoint)), Ptr("Change", TxOut)>>

\* the arguments of writeElements and readElements in MsgMixKE
MsgMixKEFields ==
    <<Ptr("Signature", TArray(64)), Ptr("Identity", TArray(32)), Ptr("ECDH", TArray(32)),
      Ptr("Commitment", TArray(32)), Ptr("Run", TUint(4)),
      Ptr("SeenPRs", TList(TArray(32))), Ptr("PQPK", TArray(1218))>>

MsgMixKEDataFields ==
    <<Ptr("ECDH", TArray(32)), Ptr("Commitment", TArray(32)), Ptr("Run", TUint(4)),
      Ptr("SeenPRs", TList(TArray(32))), Ptr("PQPK", TArray(1218))>>

MsgMixCTFields ==
    <<Ptr("Signature", TArray(64)), Ptr("Ciphertexts", TList(TArray(1047)))>>

MsgMixSRFields ==
    <<Ptr("Signature", TArray(64)), Ptr("Run", TUint(4)), Ptr("DCMix", TList(TVar))>>

MsgMixDCFields ==
    <<Ptr("Signature", TArray(64)), Ptr("Run", TUint(4)),
      Ptr("DCNet", TList(MsgMixDCVector)), Ptr("RevealSecrets", TBool)>>

MsgMixCMFields ==
    <<Ptr("Signature", TArray(64)), Ptr("RevealSecrets", TBool), Ptr("Mix", TVar)>>

\* bytes.NewBuffer(make([]byte, 20)): a buffer that already holds 20 zero bytes
dataBuffer == Zeros(20)

MsgMixPRData(msg) == dataBuffer \o writeElements(MsgMixPRDataFields, msg)

MsgMixPRBtcDecode(msg, b, pv, bv) ==
    IF pv < MixVersion THEN [err |-> ErrMsgInvalidForPVer, msg |-> msg, pos |-> 0]
    ELSE readElements(MsgMixPRDecodeFields, msg, b, bv)

MsgMixPRBtcEncode(msg, pv) ==
    IF pv < MixVersion THEN [err |-> ErrMsgInvalidForPVer, out |-> <<>>]
    ELSE [err |-> nil, out |-> writeElements(MsgMixPREncodeFields, msg)]

MsgMixKEData(msg) == dataBuffer \o writeElements(MsgMixKEDataFields, msg)

MsgMixKEBtcDecode(msg, b, pv, bv) ==
    IF pv < MixVersion THEN [err |-> ErrMsgInvalidForPVer, msg |-> msg, pos |-> 0]
    ELSE readElements(MsgMixKEFields, msg, b, bv)

MsgMixKEBtcEncode(msg, pv) ==
    IF pv < MixVersion THEN [err |-> ErrMsgInvalidForPVer, out |-> <<>>]
    ELSE [err |-> nil, out |-> writeElements(MsgMixKEFields, msg)]

MsgMixCTBtcDecode(msg, b, pv, bv) ==
    IF pv < MixVersion THEN [err |-> ErrMsgInvalidForPVer, msg |-> msg, pos |-> 0]
    ELSE readElements(MsgMixCTFields, msg, b, bv)

\* MsgMixCT.BtcEncode without the test of the protocol version
MsgMixCTBtcEncodeUnchecked(msg, pv) ==
    [err |-> nil, out |-> writeElements(MsgMixCTFields, msg)]

MsgMixCTBtcEncode(msg, pv) ==
    IF pv < MixVersion THEN [err |-> ErrMsgInvalidForPVer, out |-> <<>>]
    ELSE [err |-> nil, out |-> writeElements(MsgMixCTFields, msg)]

MsgMixSRBtcDecode(msg, b, pv, bv) ==
    IF pv < MixVersion THEN [err |-> ErrMsgInvalidForPVer, msg |-> msg, pos |-> 0]
    ELSE readElements(MsgMixSRFields, msg, b, bv)

MsgMixSRBtcEncode(msg, pv) ==
    IF pv < MixVersion THEN [err |-> ErrMsgInvalidForPVer, out |-> <<>>]
    ELSE [err |-> nil, out |-> writeElements(MsgMixSRFields, msg)]

MsgMixDCBtcDecode(msg, b, pv, bv) ==
    IF pv < MixVersion THEN [err |-> ErrMsgInvalidForPVer, msg |-> msg, pos |-> 0]
    ELSE readElements(MsgMixDCFields, msg, b, bv)

MsgMixDCBtcEncode(msg, pv) ==
    IF pv < MixVersion THEN [err |-> ErrMsgInvalidForPVer, out |-> <<>>]
    ELSE [err |-> nil, out |-> writeElements(MsgMixDCFields, msg)]

MsgMixCMBtcDecode(msg, b, pv, bv) ==
    IF pv < MixVersion THEN [err |-> ErrMsgInvalidForPVer, msg |-> msg, pos |-> 0]
    ELSE readElements(MsgMixCMFields, msg, b, bv)

MsgMixCMBtcEncode(msg, pv) ==
    IF pv < MixVersion THEN [err |-> ErrMsgInvalidForPVer, out |-> <<>>]
    ELSE [err |-> nil, out |-> writeElements(MsgMixCMFields, msg)]

MixKinds == {"MsgMixPR", "MsgMixKE", "MsgMixCT", "MsgMixSR", "MsgMixDC", "MsgMixCM"}

\* the method of the receiver's own type
MixBtcEncode(msg, pv) ==
    CASE msg.kind = "MsgMixPR" -> MsgMixPRBtcEncode(msg, pv)
      [] msg.kind = "MsgMixKE" -> MsgMixKEBtcEncode(msg, pv)
      [] msg.kind = "MsgMixCT" -> MsgMixCTBtcEncode(msg, pv)
      [] msg.kind = "MsgMixSR" -> MsgMixSRBtcEncode(msg, pv)
      [] msg.kind = "MsgMixDC" -> MsgMixDCBtcEncode(msg, pv)
      [] msg.kind = "MsgMixCM" -> MsgMixCMBtcEncode(msg, pv)

\* variant: MsgMixPR publishes the bound its comment sketches, without MaxTxSize
MixMaxPayloadLengthPublished(msg, pv) ==
    IF msg.kind = "MsgMixPR" /\ pv >= MixVersion
    THEN 64 + 32 + 8 + 2 + 2 + 2 + 4 + 4
    ELSE 0

\* MaxPayloadLength of the six mixing messages
MixMaxPayloadLength(msg, pv) ==
    CASE msg.kind = "MsgMixPR" -> 0
      [] msg.kind = "MsgMixKE" -> 0
      [] msg.kind = "MsgMixCT" -> 0
      [] msg.kind = "MsgMixSR" -> 0
      [] msg.kind = "MsgMixDC" -> 0
      [] msg.kind = "MsgMixCM" -> 0

MixBtcDecode(msg, b, pv, bv) ==
    CASE msg.kind = "MsgMixPR" -> MsgMixPRBtcDecode(msg, b, pv, bv)
      [] msg.kind = "MsgMixKE" -> MsgMixKEBtcDecode(msg, b, pv, bv)
      [] msg.kind = "MsgMixCT" -> MsgMixCTBtcDecode(msg, b, pv, bv)
      [] msg.kind = "MsgMixSR" -> MsgMixSRBtcDecode(msg, b, pv, bv)
      [] msg.kind = "MsgMixDC" -> MsgMixDCBtcDecode(msg, b, pv, bv)
      [] msg.kind = "MsgMixCM" -> MsgMixCMBtcDecode(msg, b, pv, bv)

MixData(msg) ==
    CASE msg.kind = "MsgMixPR" -> MsgMixPRData(msg)
      [] msg.kind = "MsgMixKE" -> MsgMixKEData(msg)

(***************************************************************************)
(* The records and wire images the calls are tried with: the vectors of    *)
(* the tests of netaddressv2.go and records outside them.                  *)
(***************************************************************************)
SFNodeNetwork == 1

\* time.Unix(0x495fab29, 0)
testTimestamp == timeUnix(1231006505, 0)

ipv4IpBytes == <<127, 0, 0, 1>>

ipv6IpBytes == <<38, 32, 1, 0, 0, 0, 0, 0, 0, 0, 0, 0, 0, 0, 0, 1>>

torV3IpBytes ==
    <<184, 57, 29, 32, 3, 187, 59, 210, 133, 176, 53, 172, 142, 179, 12, 128,
      196, 226, 162, 155, 183, 162, 240, 206, 13, 248, 116, 60, 55, 236, 53, 147>>

serializedIPv4NetAddressBytes ==
    <<41, 171, 95, 73, 0, 0, 0, 0, 1, 0, 0, 0, 0, 0, 0, 0, 1, 127, 0, 0, 1, 148, 35>>

serializedIPv6NetAddressBytes ==
    <<41, 171, 95, 73, 0, 0, 0, 0, 1, 0, 0, 0, 0, 0, 0, 0, 2,
      38, 32, 1, 0, 0, 0, 0, 0, 0, 0, 0, 0, 0, 0, 0, 1, 149, 35>>

serializedTORv3NetAddressBytes ==
    <<41, 171, 95, 73, 0, 0, 0, 0, 1, 0, 0, 0, 0, 0, 0, 0, 3,
      184, 57, 29, 32, 3, 187, 59, 210, 133, 176, 53, 172, 142, 179, 12, 128,
      196, 226, 162, 155, 183, 162, 240, 206, 13, 248, 116, 60, 55, 236, 53, 147,
      164, 74>>

ipv4Address ==
    NewNetAddressV2(IPv4Address, ipv4IpBytes, 9108, testTimestamp, SFNodeNetwork)

ipv6Address ==
    NewNetAddressV2(IPv6Address, ipv6IpBytes, 9109, testTimestamp, SFNodeNetwork)

torv3Address ==
    NewNetAddressV2(TORv3Address, torV3IpBytes, 19108, testTimestamp, SFNodeNetwork)

\* a record of the Unknown kind
unknownAddress ==
    NewNetAddressV2(UnknownAddressType, ipv4IpBytes, 9108, testTimestamp, SFNodeNetwork)

\* a record whose kind is beyond TORv3
beyondAddress ==
    NewNetAddressV2(TORv3Address + 1, ipv6IpBytes, 9108, testTimestamp, SFNodeNetwork)

\* a record seen before the epoch, with no services and port 65535
oldAddress ==
    NewNetAddressV2(IPv6Address, ipv6IpBytes, 65535, timeUnix(-2, 0), 0)

\* a record whose timestamp is not a whole second
subSecondAddress ==
    NewNetAddressV2(IPv4Address, ipv4IpBytes, 9108, timeUnix(1231006505, 1), SFNodeNetwork)

\* records whose IP length does not match their kind
nilIPv4Address ==
    NewNetAddressV2(IPv4Address, <<>>, 9108, testTimestamp, SFNodeNetwork)

longIPv4Address ==
    NewNetAddressV2(IPv4Address, ipv6IpBytes, 9108, testTimestamp, SFNodeNetwork)

shortIPv6Address ==
    NewNetAddressV2(IPv6Address, ipv4IpBytes, 9109, testTimestamp, SFNodeNetwork)

shortTORv3Address ==
    NewNetAddressV2(TORv3Address, ipv4IpBytes, 19108, testTimestamp, SFNodeNetwork)

AddrUniverse == {ipv4Address, ipv6Address, torv3Address, unknownAddress}

\* record i of a bulk batch: distinct IPv4 records, so that order shows
bulkAddress(i) ==
    NewNetAddressV2(IPv4Address, <<10, 0, i \div 256, i % 256>>, i, testTimestamp,
                    SFNodeNetwork)

Bulk(k) == [i \in 1..k |-> bulkAddress(i)]

BulkSizes == (MaxAddrPerV2Msg - BulkSpread)..(MaxAddrPerV2Msg + BulkSpread)

BulkBatches == {Bulk(k) : k \in BulkSizes}

\* the lists a bulk batch is added to
BulkBases == {<<>>, <<ipv4Address>>, <<ipv6Address, torv3Address>>}

SmallBatches ==
    {<<>>, <<ipv4Address>>, <<ipv4Address, ipv6Address, torv3Address>>,
     <<ipv4Address, beyondAddress, ipv6Address>>,
     <<oldAddress, ipv4Address>>, <<subSecondAddress>>,
     <<nilIPv4Address, longIPv4Address, shortIPv6Address, shortTORv3Address>>}

Batches == SmallBatches \cup BulkBatches

\* the values TestAddrV2WireErrors assigns to AddrList, and a list one over
\* the maximum
SetLists ==
    {<<>>, <<ipv4Address>>, <<torv3Address>>, Bulk(MaxAddrPerV2Msg + 1)}

\* the wire images BtcDecode is given besides those BtcEncode wrote
CraftedInputs ==
    {<<>>, <<0>>, <<1>>, <<253, 233, 3>>, <<253, 233>>,
     <<0>> \o serializedIPv4NetAddressBytes,
     <<253, 233, 3>> \o serializedIPv4NetAddressBytes,
     <<254, 0, 0, 1, 0>> \o serializedIPv4NetAddressBytes,
     <<1>> \o Zeros(22),
     <<1>> \o serializedIPv4NetAddressBytes,
     <<3>> \o serializedIPv4NetAddressBytes \o serializedIPv6NetAddressBytes
           \o serializedTORv3NetAddressBytes,
     <<2>> \o serializedIPv6NetAddressBytes \o SubSeq(serializedTORv3NetAddressBytes, 1, 17),
     <<2>> \o serializedIPv4NetAddressBytes \o SubSeq(serializedIPv6NetAddressBytes, 1, 20)}

Short(list) == Len(list) <= MaxShort

\* the wire images derived from what the last BtcEncode wrote when it
\* succeeded: the bytes themselves and, for a short list, the bytes followed
\* by another byte and the bytes less their last one
WrittenInputs ==
    IF op = "BtcEncode" /\ err = nil
    THEN {w} \cup
         (IF Short(AddrList) THEN {w \o <<1>>, SubSeq(w, 1, Len(w) - 1)} ELSE {})
    ELSE {}

\* the crafted images are decoded into the base lists, the written ones into
\* the list that was encoded
DecodeInputs == (IF AddrList \in BulkBases THEN CraftedInputs ELSE {}) \cup WrittenInputs

(***************************************************************************)
(* The mixing messages the calls are tried with.                           *)
(***************************************************************************)
\* n bytes that differ from place to place
pattern(n, k) == [i \in 1..n |-> (i * k + k) % 256]

NewMsgMixPR(identity, amount, scriptClass, txVersion, lockTime, expiry, messageCount, utxos, change) ==
    [kind |-> "MsgMixPR", Signature |-> Zeros(64), Identity |-> identity,
     Amount |-> amount, ScriptClass |-> scriptClass, TxVersion |-> txVersion,
     LockTime |-> lockTime, Expiry |-> expiry, MessageCount |-> messageCount,
     UTXOs |-> utxos, Change |-> change]

NewMsgMixKE(identity, run, seenPRs, ecdh, pqpk, commitment) ==
    [kind |-> "MsgMixKE", Signature |-> Zeros(64), Identity |-> identity,
     ECDH |-> ecdh, Commitment |-> commitment, Run |-> run, SeenPRs |-> seenPRs,
     PQPK |-> pqpk]

NewMsgMixCT(cipherTexts) ==
    [kind |-> "MsgMixCT", Signature |-> Zeros(64), Ciphertexts |-> cipherTexts]

NewMsgMixSR(run, dcmix) ==
    [kind |-> "MsgMixSR", Signature |-> Zeros(64), Run |-> run, DCMix |-> dcmix]

NewMsgMixDC(run, dcnet, revealSecrets) ==
    [kind |-> "MsgMixDC", Signature |-> Zeros(64), Run |-> run, DCNet |-> dcnet,
     RevealSecrets |-> revealSecrets]

NewMsgMixCM(mix, revealSecrets) ==
    [kind |-> "MsgMixCM", Signature |-> Zeros(64), RevealSecrets |-> revealSecrets,
     Mix |-> mix]

\* msg.Signature = sig
Signed(msg, sig) == [msg EXCEPT !.Signature = sig]

\* the zero values (var msg MsgMixPR, ...)
ZeroMsgMixPR ==
    NewMsgMixPR(Zeros(32), 0, <<>>, 0, 0, 0, 0, <<>>, zeroValue(TxOut))

ZeroMsgMixKE == NewMsgMixKE(Zeros(32), 0, <<>>, Zeros(32), Zeros(1218), Zeros(32))

ZeroMsgMixCT == NewMsgMixCT(<<>>)

ZeroMsgMixSR == NewMsgMixSR(0, <<>>)

ZeroMsgMixDC == NewMsgMixDC(0, <<>>, FALSE)

ZeroMsgMixCM == NewMsgMixCM(<<>>, FALSE)

MixMessages ==
    {ZeroMsgMixPR, ZeroMsgMixKE, ZeroMsgMixCT, ZeroMsgMixSR, ZeroMsgMixDC, ZeroMsgMixCM,
     Signed(NewMsgMixPR(pattern(32, 3), 100000, <<80, 50, 80, 75, 72>>, 1, 7, 9, 2,
                        <<[Hash |-> pattern(32, 5), Index |-> 1, Tree |-> 0],
                          [Hash |-> pattern(32, 7), Index |-> 70000, Tree |-> -1]>>,
                        [Value |-> 5000, Version |-> 0, PkScript |-> <<118, 169, 20>>]),
            pattern(64, 1)),
     Signed(NewMsgMixPR(pattern(32, 9), -1, <<>>, 65535, 0, 0, 1, <<>>,
                        zeroValue(TxOut)),
            pattern(64, 11)),
     Signed(NewMsgMixKE(pattern(32, 3), 4, <<pattern(32, 13), pattern(32, 15)>>,
                        pattern(32, 17), pattern(1218, 19), pattern(32, 21)),
            pattern(64, 1)),
     NewMsgMixKE(pattern(32, 9), 0, <<>>, pattern(32, 23), pattern(1218, 25),
                 pattern(32, 27)),
     Signed(NewMsgMixCT(<<pattern(1047, 29), pattern(1047, 31)>>), pattern(64, 1)),
     Signed(NewMsgMixCT(<<pattern(1047, 31)>>), pattern(64, 11)),
     Signed(NewMsgMixSR(4, <<<<1, 2, 3>>, <<>>, <<255>>>>), pattern(64, 1)),
     Signed(NewMsgMixSR(70000, <<<<9>>>>), pattern(64, 11)),
     Signed(NewMsgMixDC(4, <<[N |-> 2, Msize |-> 3, Data |-> <<1, 2, 3, 4, 5, 6>>],
                             [N |-> -1, Msize |-> 0, Data |-> <<>>]>>, TRUE),
            pattern(64, 1)),
     Signed(NewMsgMixDC(5, <<[N |-> 1, Msize |-> 1, Data |-> <<7>>]>>, FALSE),
            pattern(64, 11)),
     Signed(NewMsgMixCM(<<1, 0, 0, 0, 1>>, TRUE), pattern(64, 1)),
     Signed(NewMsgMixCM(<<2>>, FALSE), pattern(64, 11))}

\* the wire images of those messages, whole, less their last byte, cut in
\* half and followed by another byte
WireImages(msg) ==
    LET b == MixBtcEncode(msg, MixVersion).out IN
    {b, SubSeq(b, 1, Len(b) - 1), SubSeq(b, 1, Len(b) \div 2), b \o <<1>>}

MixInputs ==
    [k \in MixKinds |-> UNION {WireImages(m) : m \in {x \in MixMessages : x.kind = k}}]

(***************************************************************************)
(* The calls.                                                              *)
(***************************************************************************)
\* discover has not been called
beforeDiscover ==
    [pc |-> "entry", try |-> 0, sleepTime |-> 0, ctxDone |-> FALSE,
     pppclients |-> <<>>, ipclients |-> <<>>, igd |-> nil, err |-> nil,
     attempts |-> 0]

Init ==
    /\ AddrList = <<>>
    /\ op = "NewMsgAddrV2"
    /\ err = nil
    /\ pver = 0
    /\ arg = <<>>
    /\ w = <<>>
    /\ r = <<>>
    /\ rpos = 0
    /\ mixMsg = ZeroMsgMixPR
    /\ ret = 0
    /\ upnp = beforeDiscover

\* NewMsgAddrV2: a message with an empty list
NewMsgAddrV2 ==
    /\ AddrList' = <<>>
    /\ op' = "NewMsgAddrV2"
    /\ err' = nil
    /\ pver' = 0
    /\ arg' = <<>>
    /\ w' = <<>>
    /\ r' = <<>>
    /\ rpos' = 0
    /\ ret' = 0
    /\ UNCHANGED <<upnp, mixMsg>>

AddAddress ==
    \E na \in AddrUniverse :
        /\ \/ Len(AddrList) < MaxSmall
           \/ /\ Len(AddrList) >= MaxAddrPerV2Msg - BulkSpread
              /\ na = ipv4Address
        /\ LET res == MsgAddrV2AddAddress(AddrList, na) IN
           /\ AddrList' = res.list
           /\ err' = res.err
        /\ op' = "AddAddress"
        /\ pver' = 0
        /\ arg' = <<na>>
        /\ w' = <<>>
        /\ r' = <<>>
        /\ rpos' = 0
        /\ ret' = 0
        /\ UNCHANGED <<upnp, mixMsg>>

AddAddresses ==
    \E netAddrs \in Batches :
        /\ AddrList \in BulkBases
        /\ netAddrs \in BulkBatches => op \in {"NewMsgAddrV2", "AddAddress"}
        /\ LET res == MsgAddrV2AddAddresses(AddrList, netAddrs) IN
           /\ AddrList' = res.list
           /\ err' = res.err
        /\ op' = "AddAddresses"
        /\ pver' = 0
        /\ arg' = netAddrs
        /\ w' = <<>>
        /\ r' = <<>>
        /\ rpos' = 0
        /\ ret' = 0
        /\ UNCHANGED <<upnp, mixMsg>>

ClearAddresses ==
    /\ AddrList' = <<>>
    /\ op' = "ClearAddresses"
    /\ err' = nil
    /\ pver' = 0
    /\ arg' = <<>>
    /\ w' = <<>>
    /\ r' = <<>>
    /\ rpos' = 0
    /\ ret' = 0
    /\ UNCHANGED <<upnp, mixMsg>>

\* a caller assigning the exported field AddrList, as TestAddrV2WireErrors does
SetAddrList ==
    \E list \in SetLists :
        /\ AddrList' = list
        /\ op' = "SetAddrList"
        /\ err' = nil
        /\ pver' = 0
        /\ arg' = list
        /\ w' = <<>>
        /\ r' = <<>>
        /\ rpos' = 0
        /\ ret' = 0
        /\ UNCHANGED <<upnp, mixMsg>>

BtcEncode ==
    \E pv \in PVers :
        LET res == MsgAddrV2BtcEncode(AddrList, pv) IN
        /\ w' = res.out
        /\ err' = res.err
        /\ op' = "BtcEncode"
        /\ pver' = pv
        /\ arg' = <<>>
        /\ r' = <<>>
        /\ rpos' = 0
        /\ ret' = 0
        /\ UNCHANGED <<upnp, AddrList, mixMsg>>

BtcDecode ==
    \E pv \in PVers, b \in DecodeInputs :
        LET res == MsgAddrV2BtcDecode(AddrList, b, pv) IN
        /\ AddrList' = res.list
        /\ err' = res.err
        /\ r' = b
        /\ rpos' = res.pos
        /\ op' = "BtcDecode"
        /\ pver' = pv
        /\ arg' = <<>>
        /\ w' = <<>>
        /\ ret' = 0
        /\ UNCHANGED <<upnp, mixMsg>>

MaxPayloadLength ==
    \* the result does not depend on the message: it is asked of a message
    \* just constructed
    /\ op = "NewMsgAddrV2"
    /\ \E pv \in PVers :
        /\ ret' = MsgAddrV2MaxPayloadLength(pv)
        /\ op' = "MaxPayloadLength"
        /\ err' = nil
        /\ pver' = pv
        /\ arg' = <<>>
        /\ w' = <<>>
        /\ r' = <<>>
        /\ rpos' = 0
        /\ UNCHANGED <<upnp, AddrList, mixMsg>>

\* the size MaxPayloadLength allows for one record
MaxNetAddressPayload ==
    \* the result does not depend on the message: it is asked of a message
    \* just constructed
    /\ op = "NewMsgAddrV2"
    /\ \E pv \in PVers :
        /\ ret' = maxNetAddressPayloadV2(pv)
        /\ op' = "maxNetAddressPayloadV2"
        /\ err' = nil
        /\ pver' = pv
        /\ arg' = <<>>
        /\ w' = <<>>
        /\ r' = <<>>
        /\ rpos' = 0
        /\ UNCHANGED <<upnp, AddrList, mixMsg>>

\* a caller constructing a mixing message and assigning its signature
NewMsgMix ==
    \E m \in MixMessages :
        /\ mixMsg' = m
        /\ op' = "NewMsgMix"
        /\ err' = nil
        /\ pver' = 0
        /\ w' = <<>>
        /\ r' = <<>>
        /\ rpos' = 0
        /\ ret' = 0
        /\ UNCHANGED <<upnp, AddrList, arg>>

MixEncode ==
    \E pv \in MixPVers :
        LET res == MixBtcEncode(mixMsg, pv) IN
        /\ w' = res.out
        /\ err' = res.err
        /\ op' = "MixBtcEncode"
        /\ pver' = pv
        /\ r' = <<>>
        /\ rpos' = 0
        /\ ret' = 0
        /\ UNCHANGED <<upnp, AddrList, arg, mixMsg>>

\* BtcDecode into a message just constructed
MixDecode ==
    /\ op = "NewMsgMix"
    /\ \E pv \in MixPVers, b \in MixInputs[mixMsg.kind], bv \in ByValueOutcomes :
        LET res == MixBtcDecode(mixMsg, b, pv, bv) IN
        /\ mixMsg' = res.msg
        /\ err' = res.err
        /\ r' = b
        /\ rpos' = res.pos
        /\ op' = "MixBtcDecode"
        /\ pver' = pv
        /\ w' = <<>>
        /\ ret' = 0
        /\ UNCHANGED <<upnp, AddrList, arg>>

\* MaxPayloadLength of a mixing message
MixMaxPayloadLengthCall ==
    \E pv \in MixPVers :
        /\ ret' = MixMaxPayloadLength(mixMsg, pv)
        /\ op' = "MixMaxPayloadLength"
        /\ pver' = pv
        /\ err' = nil
        /\ w' = <<>>
        /\ r' = <<>>
        /\ rpos' = 0
        /\ UNCHANGED <<upnp, AddrList, arg, mixMsg>>

\* Data() of a MsgMixPR or MsgMixKE
MixDataCall ==
    /\ mixMsg.kind \in {"MsgMixPR", "MsgMixKE"}
    /\ w' = MixData(mixMsg)
    /\ err' = nil
    /\ op' = "Data"
    /\ pver' = 0
    /\ r' = <<>>
    /\ rpos' = 0
    /\ ret' = 0
    /\ UNCHANGED <<upnp, AddrList, arg, mixMsg>>

Next ==
    \/ NewMsgAddrV2
    \/ AddAddress
    \/ AddAddresses
    \/ ClearAddresses
    \/ SetAddrList
    \/ BtcEncode
    \/ BtcDecode
    \/ MaxPayloadLength
    \/ MaxNetAddressPayload

Spec == Init /\ [][Next]_vars

\* the calls of the public API of MsgAddrV2 alone
NextAPI ==
    \/ NewMsgAddrV2
    \/ AddAddress
    \/ AddAddresses
    \/ ClearAddresses
    \/ BtcEncode
    \/ BtcDecode
    \/ MaxPayloadLength
    \/ MaxNetAddressPayload

SpecAPI == Init /\ [][NextAPI]_vars

NextMix ==
    \/ NewMsgMix
    \/ MixEncode
    \/ MixDecode
    \/ MixDataCall
    \/ MixMaxPayloadLengthCall

SpecMix == Init /\ [][NextMix]_vars


(***************************************************************************)
(* addrmgr: classification of network addresses (addrmgr/network.go).      *)
(*                                                                         *)
(* A netip.Addr is modelled by its bit length and its bytes: 0 and no      *)
(* bytes for the zero Addr, 32 and 4 bytes for an IPv4 address, 128 and 16 *)
(* bytes for an IPv6 address.  An IPv4-mapped IPv6 address is a 128-bit    *)
(* address, as in netip.  Zones are left out.                              *)
(***************************************************************************)
LocalAddress == 0
TORv2Address == 3

\* netip.AddrFrom4, netip.AddrFrom16 and the zero netip.Addr
AddrFrom4(b) == [BitLen |-> 32, b |-> b]
AddrFrom16(b) == [BitLen |-> 128, b |-> b]
zeroAddr == [BitLen |-> 0, b |-> <<>>]

\* the sixteen bytes of an IPv6 address given by its eight 16-bit groups
FromGroups(g) == AddrFrom16([i \in 1..16 |->
    IF i % 2 = 1 THEN g[(i + 1) \div 2] \div 256 ELSE g[i \div 2] % 256])

\* netip.PrefixFrom(addr, bits).Masked().Addr(): the bits after the first
\* `bits` are cleared
Masked(addr, bits) ==
    [addr EXCEPT !.b = [i \in 1..Len(addr.b) |->
        IF 8 * i <= bits THEN addr.b[i]
        ELSE IF 8 * (i - 1) >= bits THEN 0
        ELSE LET low == 2 ^ (8 * i - bits) IN (addr.b[i] \div low) * low]]

\* netip.Prefix.Contains: same address family and the same first p.bits bits.
\* An IPv4-mapped IPv6 address is in no IPv4 prefix, the zero Addr in none.
Contains(p, addr) ==
    /\ addr.BitLen # 0
    /\ addr.BitLen = p.ip.BitLen
    /\ Masked(addr, p.bits) = Masked(p.ip, p.bits)

\* the address blocks of the package, as netip.MustParsePrefix parses them
nets == [
    rfc1918Nets |-> <<[ip |-> AddrFrom4(<<10, 0, 0, 0>>), bits |-> 8],
                      [ip |-> AddrFrom4(<<172, 16, 0, 0>>), bits |-> 12],
                      [ip |-> AddrFrom4(<<192, 168, 0, 0>>), bits |-> 16]>>,
    rfc2544Net  |-> [ip |-> AddrFrom4(<<198, 18, 0, 0>>), bits |-> 15],
    \* 2001:DB8::/32 (groups in decimal)
    rfc3849Net  |-> [ip |-> FromGroups(<<8193, 3512, 0, 0, 0, 0, 0, 0>>), bits |-> 32],
    rfc3927Net  |-> [ip |-> AddrFrom4(<<169, 254, 0, 0>>), bits |-> 16],
    \* 2002::/16 (groups in decimal)
    rfc3964Net  |-> [ip |-> FromGroups(<<8194, 0, 0, 0, 0, 0, 0, 0>>), bits |-> 16],
    \* FC00::/7 (groups in decimal)
    rfc4193Net  |-> [ip |-> FromGroups(<<64512, 0, 0, 0, 0, 0, 0, 0>>), bits |-> 7],
    \* 2001::/32 (groups in decimal)
    rfc4380Net  |-> [ip |-> FromGroups(<<8193, 0, 0, 0, 0, 0, 0, 0>>), bits |-> 32],
    \* 2001:10::/28 (groups in decimal)
    rfc4843Net  |-> [ip |-> FromGroups(<<8193, 16, 0, 0, 0, 0, 0, 0>>), bits |-> 28],
    \* FE80::/64 (groups in decimal)
    rfc4862Net  |-> [ip |-> FromGroups(<<65152, 0, 0, 0, 0, 0, 0, 0>>), bits |-> 64],
    rfc5737Net  |-> <<[ip |-> AddrFrom4(<<192, 0, 2, 0>>), bits |-> 24],
                      [ip |-> AddrFrom4(<<198, 51, 100, 0>>), bits |-> 24],
                      [ip |-> AddrFrom4(<<203, 0, 113, 0>>), bits |-> 24]>>,
    \* 64:FF9B::/96 (groups in decimal)
    rfc6052Net  |-> [ip |-> FromGroups(<<100, 65435, 0, 0, 0, 0, 0, 0>>), bits |-> 96],
    \* ::FFFF:0:0:0/96 (groups in decimal)
    rfc6145Net  |-> [ip |-> FromGroups(<<0, 0, 0, 0, 65535, 0, 0, 0>>), bits |-> 96],
    rfc6598Net  |-> [ip |-> AddrFrom4(<<100, 64, 0, 0>>), bits |-> 10],
    \* fd87:d87e:eb43::/48 (groups in decimal)
    onionCatNet |-> [ip |-> FromGroups(<<64903, 55422, 60227, 0, 0, 0, 0, 0>>), bits |-> 48],
    zero4Net    |-> [ip |-> AddrFrom4(<<0, 0, 0, 0>>), bits |-> 8],
    \* 2001:470::/32 (groups in decimal)
    heNet       |-> [ip |-> FromGroups(<<8193, 1136, 0, 0, 0, 0, 0, 0>>), bits |-> 32]]

ipv4bcast == AddrFrom4(<<255, 255, 255, 255>>)

\* netip.Addr.IsLoopback: 127.0.0.0/8 and ::1
IsLoopback(addr) ==
    \/ addr.BitLen = 32 /\ addr.b[1] = 127
    \/ addr.BitLen = 128 /\ addr.b = [i \in 1..16 |-> IF i = 16 THEN 1 ELSE 0]

\* netip.Addr.IsUnspecified: 0.0.0.0 and ::
IsUnspecified(addr) ==
    addr.BitLen # 0 /\ addr.b = Zeros(Len(addr.b))

\* variant: only loopback addresses are local
isLocalLoopbackOnly(addr) ==
    IsLoopback(addr)

isLocal(addr) ==
    IsLoopback(addr) \/ Contains(nets.zero4Net, addr)

isOnionCatTor(addr) ==
    Contains(nets.onionCatNet, addr)

\* variant: the IPv4 test comes before the local test
addressTypeIPv4First(addr) ==
    CASE addr.BitLen = 32 -> IPv4Address
      [] addr.BitLen # 32 /\ isLocal(addr) -> LocalAddress
      [] addr.BitLen # 32 /\ ~isLocal(addr) /\ isOnionCatTor(addr) -> TORv2Address
      [] OTHER -> IPv6Address

addressType(addr) ==
    CASE isLocal(addr) -> LocalAddress
      [] ~isLocal(addr) /\ addr.BitLen = 32 -> IPv4Address
      [] ~isLocal(addr) /\ addr.BitLen # 32 /\ isOnionCatTor(addr) -> TORv2Address
      [] OTHER -> IPv6Address

isValid(addr) ==
    addr.BitLen # 0 /\ ~(IsUnspecified(addr) \/ addr = ipv4bcast)

\* variant: link-local IPv6 addresses (RFC4862) are not excluded
IsRoutableLinkLocal(addr) ==
    LET isRFC1918 == \E i \in 1..Len(nets.rfc1918Nets) : Contains(nets.rfc1918Nets[i], addr)
        isRFC2544 == Contains(nets.rfc2544Net, addr)
        isRFC3849 == Contains(nets.rfc3849Net, addr)
        isRFC3927 == Contains(nets.rfc3927Net, addr)
        isRFC4193 == Contains(nets.rfc4193Net, addr)
        isRFC4843 == Contains(nets.rfc4843Net, addr)
        isRFC4862 == Contains(nets.rfc4862Net, addr)
        isRFC5737 == \E i \in 1..Len(nets.rfc5737Net) : Contains(nets.rfc5737Net[i], addr)
        isRFC6598 == Contains(nets.rfc6598Net, addr)
    IN  isValid(addr) /\ ~(isRFC1918 \/ isRFC2544 \/
            isRFC3927 \/ isRFC3849 \/
            isRFC4843 \/ isRFC5737 \/ isRFC6598 \/
            isLocal(addr) \/ (isRFC4193 /\ ~isOnionCatTor(addr)))

IsRoutable(addr) ==
    LET isRFC1918 == \E i \in 1..Len(nets.rfc1918Nets) : Contains(nets.rfc1918Nets[i], addr)
        isRFC2544 == Contains(nets.rfc2544Net, addr)
        isRFC3849 == Contains(nets.rfc3849Net, addr)
        isRFC3927 == Contains(nets.rfc3927Net, addr)
        isRFC4193 == Contains(nets.rfc4193Net, addr)
        isRFC4843 == Contains(nets.rfc4843Net, addr)
        isRFC4862 == Contains(nets.rfc4862Net, addr)
        isRFC5737 == \E i \in 1..Len(nets.rfc5737Net) : Contains(nets.rfc5737Net[i], addr)
        isRFC6598 == Contains(nets.rfc6598Net, addr)
    IN  isValid(addr) /\ ~(isRFC1918 \/ isRFC2544 \/
            isRFC3927 \/ isRFC4862 \/ isRFC3849 \/
            isRFC4843 \/ isRFC5737 \/ isRFC6598 \/
            isLocal(addr) \/ (isRFC4193 /\ ~isOnionCatTor(addr)))

\* a group of an IPv6 address in lower-case hexadecimal without leading zeros
RECURSIVE appendHex(_)
appendHex(n) ==
    LET hexDigits == <<"0", "1", "2", "3", "4", "5", "6", "7",
                       "8", "9", "a", "b", "c", "d", "e", "f">>
    IN  IF n < 16 THEN hexDigits[n + 1]
        ELSE appendHex(n \div 16) \o hexDigits[(n % 16) + 1]

\* an IPv4 address in dotted decimal
string4(b) ==
    ToString(b[1]) \o "." \o ToString(b[2]) \o "." \o ToString(b[3]) \o "." \o ToString(b[4])

\* netip.Addr.String: dotted decimal for IPv4; for IPv6 the groups in
\* hexadecimal with the first longest run of two or more zero groups written
\* "::", and an IPv4-mapped address written "::ffff:a.b.c.d"
RECURSIVE string6From(_, _, _, _, _)
string6From(g, i, zeroStart, zeroEnd, sep) ==
    IF i > 8 THEN ""
    ELSE IF i = zeroStart THEN "::" \o string6From(g, zeroEnd, 0, 0, "")
    ELSE sep \o appendHex(g[i]) \o string6From(g, i + 1, zeroStart, zeroEnd, ":")

String(addr) ==
    IF addr.BitLen = 0 THEN "invalid IP"
    ELSE IF addr.BitLen = 32 THEN string4(addr.b)
    ELSE LET b == addr.b
             g == [i \in 1..8 |-> b[2 * i - 1] * 256 + b[2 * i]]
             \* the number of zero groups from group i on
             run(i) == IF \E j \in i..8 : g[j] # 0
                       THEN (CHOOSE j \in i..8 : g[j] # 0 /\ \A k \in i..(j - 1) : g[k] = 0) - i
                       ELSE 9 - i
             longest == CHOOSE l \in 0..8 : (\E i \in 1..8 : run(i) = l)
                                            /\ \A i \in 1..8 : run(i) <= l
             zeroStart == IF longest < 2 THEN 0
                          ELSE CHOOSE i \in 1..8 : run(i) = longest
                                                   /\ \A k \in 1..(i - 1) : run(k) < longest
         IN  IF (\A i \in 1..5 : g[i] = 0) /\ g[6] = 65535
             THEN "::ffff:" \o string4(SubSeq(b, 13, 16))
             ELSE string6From(g, 1, zeroStart, zeroStart + longest, "")

\* variant: the last four bytes of a Teredo address are taken as they are
GroupKeyTeredoPlain(na) ==
    LET netIP == na.IP
        isRFC3964 == Contains(nets.rfc3964Net, netIP)
        isRFC4380 == Contains(nets.rfc4380Net, netIP)
        isRFC6052 == Contains(nets.rfc6052Net, netIP)
        isRFC6145 == Contains(nets.rfc6145Net, netIP)
        b == netIP.b
        \* the /16 of the IPv4 address of four bytes, as a string
        group16(newB) == String(Masked(AddrFrom4(newB), 16))
    IN  IF isLocal(netIP) THEN "local"
        ELSE IF ~IsRoutable(netIP) THEN "unroutable"
        ELSE IF netIP.BitLen = 32 THEN String(Masked(netIP, 16))
        ELSE IF isRFC6145 \/ isRFC6052 THEN group16(SubSeq(b, 13, 16))
        ELSE IF isRFC3964 THEN group16(SubSeq(b, 3, 6))
        ELSE IF isRFC4380 THEN group16(SubSeq(b, 13, 16))
        ELSE IF isOnionCatTor(netIP) THEN "tor:" \o ToString(b[7] % 16)
        ELSE String(Masked(netIP, IF Contains(nets.heNet, netIP) THEN 36 ELSE 32))

GroupKey(na) ==
    LET netIP == na.IP
        isRFC3964 == Contains(nets.rfc3964Net, netIP)
        isRFC4380 == Contains(nets.rfc4380Net, netIP)
        isRFC6052 == Contains(nets.rfc6052Net, netIP)
        isRFC6145 == Contains(nets.rfc6145Net, netIP)
        b == netIP.b
        \* the /16 of the IPv4 address of four bytes, as a string
        group16(newB) == String(Masked(AddrFrom4(newB), 16))
    IN  IF isLocal(netIP) THEN "local"
        ELSE IF ~IsRoutable(netIP) THEN "unroutable"
        ELSE IF netIP.BitLen = 32 THEN String(Masked(netIP, 16))
        ELSE IF isRFC6145 \/ isRFC6052 THEN group16(SubSeq(b, 13, 16))
        ELSE IF isRFC3964 THEN group16(SubSeq(b, 3, 6))
        ELSE IF isRFC4380 THEN group16([i \in 1..4 |-> 255 - b[12 + i]])
        ELSE IF isOnionCatTor(netIP) THEN "tor:" \o ToString(b[7] % 16)
        ELSE String(Masked(netIP, IF Contains(nets.heNet, netIP) THEN 36 ELSE 32))


\* the addresses the classification functions are applied to: the zero Addr,
\* and for each address block of the package addresses inside it and just
\* outside it (IPv6 groups in decimal)
NetAddrs == {
    zeroAddr,
    AddrFrom4(<<0, 0, 0, 0>>),
    AddrFrom4(<<0, 1, 2, 3>>),
    AddrFrom4(<<127, 0, 0, 1>>),
    AddrFrom4(<<127, 8, 8, 8>>),
    AddrFrom4(<<255, 255, 255, 255>>),
    AddrFrom4(<<255, 255, 255, 254>>),
    AddrFrom4(<<10, 0, 0, 1>>),
    AddrFrom4(<<11, 0, 0, 1>>),
    AddrFrom4(<<172, 16, 0, 1>>),
    AddrFrom4(<<172, 31, 255, 255>>),
    AddrFrom4(<<172, 32, 0, 1>>),
    AddrFrom4(<<192, 168, 1, 1>>),
    AddrFrom4(<<192, 169, 1, 1>>),
    AddrFrom4(<<198, 18, 0, 1>>),
    AddrFrom4(<<198, 19, 255, 255>>),
    AddrFrom4(<<198, 20, 0, 1>>),
    AddrFrom4(<<169, 254, 1, 1>>),
    AddrFrom4(<<192, 0, 2, 1>>),
    AddrFrom4(<<198, 51, 100, 1>>),
    AddrFrom4(<<203, 0, 113, 1>>),
    AddrFrom4(<<100, 64, 0, 1>>),
    AddrFrom4(<<100, 127, 255, 255>>),
    AddrFrom4(<<100, 128, 0, 1>>),
    AddrFrom4(<<8, 8, 8, 8>>),
    AddrFrom4(<<8, 8, 4, 4>>),
    AddrFrom4(<<8, 9, 8, 8>>),
    AddrFrom4(<<1, 2, 3, 4>>),
    FromGroups(<<0, 0, 0, 0, 0, 0, 0, 0>>),  \* ::
    FromGroups(<<0, 0, 0, 0, 0, 0, 0, 1>>),  \* ::1
    FromGroups(<<0, 0, 0, 0, 0, 0, 0, 2>>),  \* ::2
    FromGroups(<<8193, 3512, 0, 0, 0, 0, 0, 1>>),  \* 2001:db8::1
    FromGroups(<<8193, 3513, 0, 0, 0, 0, 0, 1>>),  \* 2001:db9::1
    FromGroups(<<8193, 16, 0, 0, 0, 0, 0, 1>>),  \* 2001:10::1
    FromGroups(<<8193, 31, 0, 0, 0, 0, 0, 1>>),  \* 2001:1f::1
    FromGroups(<<8193, 32, 0, 0, 0, 0, 0, 1>>),  \* 2001:20::1
    FromGroups(<<65152, 0, 0, 0, 0, 0, 0, 1>>),  \* fe80::1
    FromGroups(<<65152, 0, 0, 1, 0, 0, 0, 1>>),  \* fe80:0:0:1::1
    FromGroups(<<64512, 0, 0, 0, 0, 0, 0, 1>>),  \* fc00::1
    FromGroups(<<64768, 0, 0, 0, 0, 0, 0, 1>>),  \* fd00::1
    FromGroups(<<65024, 0, 0, 0, 0, 0, 0, 1>>),  \* fe00::1
    FromGroups(<<64903, 55422, 60227, 7936, 0, 0, 0, 1>>),  \* fd87:d87e:eb43:1f00::1
    FromGroups(<<64903, 55422, 60227, 12032, 0, 0, 0, 1>>),  \* fd87:d87e:eb43:2f00::1
    FromGroups(<<64903, 55422, 60227, 4351, 0, 0, 0, 2>>),  \* fd87:d87e:eb43:10ff::2
    FromGroups(<<64903, 55422, 60227, 0, 0, 0, 0, 1>>),  \* fd87:d87e:eb43:0::1
    FromGroups(<<64903, 55422, 60228, 0, 0, 0, 0, 1>>),  \* fd87:d87e:eb44::1
    FromGroups(<<8194, 2056, 2056, 0, 0, 0, 0, 1>>),  \* 2002:808:808::1
    FromGroups(<<8194, 2560, 1, 0, 0, 0, 0, 1>>),  \* 2002:a00:1::1
    FromGroups(<<8193, 0, 4660, 0, 0, 0, 63479, 63479>>),  \* 2001:0:1234::f7f7:f7f7
    FromGroups(<<100, 65435, 0, 0, 0, 0, 2056, 2056>>),  \* 64:ff9b::808:808
    FromGroups(<<0, 0, 0, 0, 65535, 0, 2056, 2056>>),  \* ::ffff:0:808:808
    FromGroups(<<0, 0, 0, 0, 0, 65535, 2056, 2056>>),  \* ::ffff:808:808
    FromGroups(<<0, 0, 0, 0, 0, 65535, 2560, 1>>),  \* ::ffff:a00:1
    FromGroups(<<8193, 1136, 4660, 0, 0, 0, 0, 1>>),  \* 2001:470:1234::1
    FromGroups(<<8193, 1136, 4096, 0, 0, 0, 0, 1>>),  \* 2001:470:1000::1
    FromGroups(<<8193, 18528, 18528, 0, 0, 0, 0, 34952>>),  \* 2001:4860:4860::8888
    FromGroups(<<8193, 18528, 0, 1, 0, 0, 0, 1>>),  \* 2001:4860:0:1::1
    FromGroups(<<10752, 0, 0, 1, 0, 0, 0, 1>>),  \* 2a00:0:0:1::1
    FromGroups(<<0, 1, 0, 0, 0, 0, 0, 1>>),  \* 0:1::1
    FromGroups(<<1, 0, 0, 0, 0, 0, 0, 0>>)  \* 1::
    }

\* a caller asking whether an address is routable
IsRoutableCall ==
    \E addr \in NetAddrs :
        /\ ret' = IsRoutable(addr)
        /\ arg' = <<addr>>
        /\ op' = "IsRoutable"
        /\ err' = nil
        /\ pver' = 0
        /\ w' = <<>>
        /\ r' = <<>>
        /\ rpos' = 0
        /\ UNCHANGED <<upnp, AddrList, mixMsg>>

\* a caller asking for the network group of a NetAddress
GroupKeyCall ==
    \E addr \in NetAddrs :
        /\ ret' = GroupKey([IP |-> addr])
        /\ arg' = <<addr>>
        /\ op' = "GroupKey"
        /\ err' = nil
        /\ pver' = 0
        /\ w' = <<>>
        /\ r' = <<>>
        /\ rpos' = 0
        /\ UNCHANGED <<upnp, AddrList, mixMsg>>

\* a caller asking for the type of an address
addressTypeCall ==
    \E addr \in NetAddrs :
        /\ ret' = addressType(addr)
        /\ arg' = <<addr>>
        /\ op' = "addressType"
        /\ err' = nil
        /\ pver' = 0
        /\ w' = <<>>
        /\ r' = <<>>
        /\ rpos' = 0
        /\ UNCHANGED <<upnp, AddrList, mixMsg>>

NextNet ==
    \/ IsRoutableCall
    \/ GroupKeyCall
    \/ addressTypeCall

SpecNet == Init /\ [][NextNet]_vars


(***************************************************************************)
(* discover (part_002).  upnp.pc is the position of the call: "entry"       *)
(* before it, "try" at the head of the loop body, "select" at the select   *)
(* statement, "parked" while the goroutine is blocked in it, "done" after  *)
(* the return.  upnp.attempts counts the discovery attempts made.          *)
(***************************************************************************)
maxTries == 3

contextCanceled == "context.Canceled"
errNoGateway == "no UPnP-enabled gateway found"

\* the values of sleepTime in milliseconds that fastrand.Intn(5000) can give:
\* the least, the next and the greatest
SleepTimes == {0, 1, 5000 - 1}

\* the clients a discovery call can find
ClientLists(kind) == {<<>>, <<kind \o "1">>, <<kind \o "1", kind \o "2">>}

\* the call: sleepTime is drawn, the context may be done already
DiscoverCall ==
    /\ upnp.pc = "entry"
    /\ \E s \in SleepTimes, done \in BOOLEAN :
        upnp' = [upnp EXCEPT !.pc = "try", !.sleepTime = s, !.ctxDone = done]
    /\ UNCHANGED <<AddrList, op, err, pver, arg, w, r, rpos, mixMsg, ret>>

\* one discovery attempt: the PPP clients, then the IP clients
DiscoverAttempt ==
    /\ upnp.pc = "try"
    /\ \E pppclients \in ClientLists("ppp"), ipclients \in ClientLists("ip") :
        upnp' = IF Len(pppclients) > 0
                THEN [upnp EXCEPT !.pppclients = pppclients, !.ipclients = <<>>,
                                  !.attempts = @ + 1, !.igd = pppclients[1],
                                  !.err = nil, !.pc = "done"]
                ELSE IF Len(ipclients) > 0
                THEN [upnp EXCEPT !.pppclients = pppclients, !.ipclients = ipclients,
                                  !.attempts = @ + 1, !.igd = ipclients[1],
                                  !.err = nil, !.pc = "done"]
                ELSE [upnp EXCEPT !.pppclients = pppclients, !.ipclients = ipclients,
                                  !.attempts = @ + 1, !.pc = "select"]
    /\ UNCHANGED <<AddrList, op, err, pver, arg, w, r, rpos, mixMsg, ret>>

\* the return of context.Canceled from the select statement
canceled(d) == [d EXCEPT !.igd = nil, !.err = contextCanceled, !.pc = "done"]

\* variant: sleepTime stays what it was
afterSleepConstant(d) ==
    LET next == d.try + 1 IN
    [d EXCEPT !.try = next,
              !.pc = IF next < maxTries THEN "try" ELSE "done",
              !.igd = nil,
              !.err = IF next < maxTries THEN nil ELSE errNoGateway]

\* the timer case of the select statement: sleepTime doubles, try++, and the
\* loop goes on or ends with the error after the last try
afterSleep(d) ==
    LET next == d.try + 1 IN
    [d EXCEPT !.sleepTime = 2 * @, !.try = next,
              !.pc = IF next < maxTries THEN "try" ELSE "done",
              !.igd = nil,
              !.err = IF next < maxTries THEN nil ELSE errNoGateway]

\* the select statement is entered: a case that is ready is taken, one of
\* them by choice when both are, and the goroutine blocks when neither is
DiscoverSelect ==
    /\ upnp.pc = "select"
    /\ \E timerReady \in BOOLEAN :
        \/ upnp.ctxDone /\ upnp' = canceled(upnp)
        \/ timerReady /\ upnp' = afterSleep(upnp)
        \/ ~upnp.ctxDone /\ ~timerReady /\ upnp' = [upnp EXCEPT !.pc = "parked"]
    /\ UNCHANGED <<AddrList, op, err, pver, arg, w, r, rpos, mixMsg, ret>>

\* the timer fires while the goroutine is blocked in the select statement
DiscoverTimer ==
    /\ upnp.pc = "parked"
    /\ upnp' = afterSleep(upnp)
    /\ UNCHANGED <<AddrList, op, err, pver, arg, w, r, rpos, mixMsg, ret>>

\* the context is cancelled while the call is under way; a goroutine blocked
\* in the select statement is woken with the ctx.Done() case
DiscoverCancel ==
    /\ upnp.pc \in {"try", "select", "parked"}
    /\ ~upnp.ctxDone
    /\ upnp' = IF upnp.pc = "parked" THEN canceled([upnp EXCEPT !.ctxDone = TRUE])
               ELSE [upnp EXCEPT !.ctxDone = TRUE]
    /\ UNCHANGED <<AddrList, op, err, pver, arg, w, r, rpos, mixMsg, ret>>

NextDiscover ==
    \/ DiscoverCall
    \/ DiscoverAttempt
    \/ DiscoverSelect
    \/ DiscoverTimer
    \/ DiscoverCancel

\* the discovery calls return, the scheduler runs the goroutine and timers
\* fire; nothing obliges anyone to cancel the context
SpecDiscover ==
    /\ Init
    /\ [][NextDiscover]_vars
    /\ WF_vars(DiscoverCall)
    /\ WF_vars(DiscoverAttempt)
    /\ WF_vars(DiscoverSelect)
    /\ WF_vars(DiscoverTimer)


(***************************************************************************)
(* Properties.  op, err, pver, arg, w, r and rpos describe the last call:  *)
(* its name, the error it returned, the protocol version and argument it   *)
(* was given, the bytes it wrote, the bytes its reader held and how many   *)
(* of them it consumed.                                                    *)
(***************************************************************************)
\* a record of a supported kind at pv, with an IP of the width of its kind and
\* a whole-second timestamp
ValidRecord(na, pv) ==
    /\ na.Timestamp.nsec = 0
    /\ \/ na.Type = IPv4Address /\ Len(na.IP) = 4
       \/ na.Type = IPv6Address /\ Len(na.IP) = 16
       \/ na.Type = TORv3Address /\ Len(na.IP) = 32 /\ pv >= RelayTORv3Version

ValidList(list, pv) ==
    /\ Len(list) \in 1..MaxAddrPerV2Msg
    /\ \A i \in 1..Len(list) : ValidRecord(list[i], pv)

HasTORv3(list) == \E i \in 1..Len(list) : list[i].Type = TORv3Address

\* the kind is none of IPv4, IPv6 and TORv3
InvalidKind(t) == t \notin {IPv4Address, IPv6Address, TORv3Address}

\* the three test records on the wire, as TestAddrV2Wire has them
multiAddrWire ==
    <<3>> \o serializedIPv4NetAddressBytes \o serializedIPv6NetAddressBytes
          \o serializedTORv3NetAddressBytes

\* C1: for each of the six mixing message kinds and every pver >= MixVersion,
\* BtcDecode of the bytes BtcEncode produced for a message m succeeds and
\* leaves the receiver equal to m in every field, LockTime, Expiry and
\* MessageCount of a MsgMixPR included.
MixRoundTrip ==
    \A m \in MixMessages :
        ( /\ op = "MixBtcDecode"
          /\ pver >= MixVersion
          /\ m.kind = mixMsg.kind
          /\ r = MixBtcEncode(m, pver).out )
        => (err = nil /\ mixMsg = m)

\* C2: Data() of a MsgMixPR or MsgMixKE is the output of BtcEncode with the
\* leading 64 signature bytes removed: it starts with the 32-byte Identity
\* and holds no other bytes.
DataIsEncodingLessSignature ==
    op = "Data" =>
        LET enc == MixBtcEncode(mixMsg, MixVersion).out IN
        /\ w = SubSeq(enc, 65, Len(enc))
        /\ SubSeq(w, 1, 32) = mixMsg.Identity

\* C3: a MsgAddrV2 of 1 to 1000 valid records (IPv4, IPv6, and TORv3 when
\* pver >= RelayTORv3Version, each with an IP of its kind's width and a
\* whole-second timestamp) encodes without error at every pver >=
\* AddrV2Version, and BtcDecode of the bytes written succeeds and yields the
\* same records in the same order, whatever list the receiver held.
AddrV2RoundTrip ==
    /\ [](op = "BtcEncode" /\ pver >= AddrV2Version /\ ValidList(AddrList, pver)
            => err = nil)
    /\ [][( /\ op = "BtcEncode"
            /\ pver >= AddrV2Version
            /\ ValidList(AddrList, pver)
            /\ op' = "BtcDecode"
            /\ pver' = pver
            /\ r' = w )
          => (err' = nil /\ AddrList' = AddrList /\ rpos' = Len(w))]_vars
    /\ [](\A m \in {<<ipv4Address>>, <<ipv4Address, ipv6Address, torv3Address>>} :
            ( /\ op = "BtcDecode"
              /\ pver >= AddrV2Version
              /\ ValidList(m, pver)
              /\ r = MsgAddrV2BtcEncode(m, pver).out )
            => (err = nil /\ AddrList = m))

AddrV2RoundTripWitness ==
    /\ op = "BtcDecode"
    /\ err = nil
    /\ pver = RelayTORv3Version
    /\ r = multiAddrWire
    /\ AddrList = <<ipv4Address, ipv6Address, torv3Address>>

\* C4: BtcEncode never writes the kind byte of a record whose kind is
\* Unknown (0) or any value other than IPv4, IPv6 and TORv3: for the first
\* such record of a list it fails with ErrInvalidMsg having written nothing
\* beyond the records before it and less than the 17 bytes that end with the
\* kind byte; BtcDecode of a first record with such a kind byte fails with
\* ErrInvalidMsg.
InvalidKindNeverWritten ==
    /\ ( /\ op = "BtcEncode"
         /\ pver >= AddrV2Version
         /\ Len(AddrList) \in 1..MaxShort )
       => (\A i \in 1..Len(AddrList) :
            ( /\ InvalidKind(AddrList[i].Type)
              /\ \A j \in 1..(i - 1) : ValidRecord(AddrList[j], pver) )
            => ( /\ err = ErrInvalidMsg
                 /\ Len(w) < Len(MsgAddrV2BtcEncode(SubSeq(AddrList, 1, i - 1), pver).out)
                             + (IF i = 1 THEN 1 ELSE 0) + 17 ))
    /\ ( /\ op = "BtcDecode"
         /\ pver >= AddrV2Version
         /\ Len(r) >= 18
         /\ r[1] \in 1..252
         /\ InvalidKind(r[18]) )
       => err = ErrInvalidMsg

\* C5: the calls of the API never leave more than 1000 entries in AddrList;
\* AddAddress returns ErrTooManyAddrs exactly when the list holds 1000
\* entries, leaving it as it was, and otherwise appends the record and
\* returns nil; ClearAddresses empties the list, and an AddAddress after it
\* succeeds.
AddAddressLimit ==
    /\ [](Len(AddrList) <= MaxAddrPerV2Msg)
    /\ [](op = "ClearAddresses" => AddrList = <<>>)
    /\ [][op' = "AddAddress" =>
            IF Len(AddrList) = MaxAddrPerV2Msg
            THEN err' = ErrTooManyAddrs /\ AddrList' = AddrList
            ELSE err' = nil /\ AddrList' = Append(AddrList, arg'[1])]_vars
    /\ [][op = "ClearAddresses" /\ op' = "AddAddress"
            => err' = nil /\ AddrList' = arg']_vars

AddAddressLimitWitness ==
    /\ op = "AddAddress"
    /\ err = ErrTooManyAddrs
    /\ Len(AddrList) = MaxAddrPerV2Msg
    /\ AddrList[MaxAddrPerV2Msg] = bulkAddress(MaxAddrPerV2Msg)

\* C6: AddAddresses with k records on a list of n entries adds them one by
\* one: when n + k > 1000 it returns ErrTooManyAddrs and the list is the
\* original n entries followed by the first 1000 - n records; when
\* n + k <= 1000 it returns nil and the list is the original entries
\* followed by all k records.
AddAddressesIncremental ==
    [][op' = "AddAddresses" /\ Len(AddrList) <= MaxAddrPerV2Msg =>
         LET n == Len(AddrList)
             k == Len(arg')
         IN IF n + k > MaxAddrPerV2Msg
            THEN /\ err' = ErrTooManyAddrs
                 /\ Len(AddrList') = MaxAddrPerV2Msg
                 /\ AddrList' = AddrList \o SubSeq(arg', 1, MaxAddrPerV2Msg - n)
            ELSE /\ err' = nil
                 /\ AddrList' = AddrList \o arg']_vars

AddAddressesIncrementalWitness ==
    /\ op = "AddAddresses"
    /\ err = ErrTooManyAddrs
    /\ Len(arg) = MaxAddrPerV2Msg
    /\ Len(AddrList) = MaxAddrPerV2Msg
    /\ AddrList[1] = ipv4Address
    /\ AddrList[MaxAddrPerV2Msg] = bulkAddress(MaxAddrPerV2Msg - 1)

\* C7: at pver >= AddrV2Version, BtcEncode of exactly 1000 valid records
\* succeeds and BtcDecode of the bytes it wrote succeeds; BtcEncode of a list
\* of more than 1000 records and BtcDecode of an input whose count is more
\* than 1000 fail with ErrTooManyAddrs; BtcEncode of an empty list and
\* BtcDecode of an input whose count is 0 fail with ErrTooFewAddrs.
AddrListBounds ==
    /\ [](op = "BtcEncode" /\ pver >= AddrV2Version =>
            /\ ((Len(AddrList) = MaxAddrPerV2Msg /\ ValidList(AddrList, pver))
                  => err = nil)
            /\ (Len(AddrList) > MaxAddrPerV2Msg => err = ErrTooManyAddrs)
            /\ (Len(AddrList) = 0 => err = ErrTooFewAddrs))
    /\ [](op = "BtcDecode" /\ pver >= AddrV2Version /\ ReadVarInt(r, 0).err = nil =>
            /\ (ReadVarInt(r, 0).val > MaxAddrPerV2Msg => err = ErrTooManyAddrs)
            /\ (ReadVarInt(r, 0).val = 0 => err = ErrTooFewAddrs))
    /\ [][( /\ op = "BtcEncode"
            /\ err = nil
            /\ Len(AddrList) = MaxAddrPerV2Msg
            /\ op' = "BtcDecode"
            /\ pver' >= pver
            /\ r' = w )
          => (err' = nil /\ Len(AddrList') = MaxAddrPerV2Msg)]_vars

AddrListBoundsWitness ==
    /\ op = "BtcDecode"
    /\ pver >= AddrV2Version
    /\ err = nil
    /\ ReadVarInt(r, 0).val = MaxAddrPerV2Msg
    /\ Len(AddrList) = MaxAddrPerV2Msg

\* C8: for every pver < AddrV2Version, BtcEncode and BtcDecode fail with
\* ErrMsgInvalidForPVer whatever the list and the input are, BtcEncode
\* having written no byte and BtcDecode having read none, and BtcDecode
\* leaves AddrList as it was.
AddrV2VersionGate ==
    /\ [](op = "BtcEncode" /\ pver < AddrV2Version
            => err = ErrMsgInvalidForPVer /\ w = <<>>)
    /\ [](op = "BtcDecode" /\ pver < AddrV2Version
            => err = ErrMsgInvalidForPVer /\ rpos = 0)
    /\ [][op' = "BtcDecode" /\ pver' < AddrV2Version => AddrList' = AddrList]_vars

AddrV2VersionGateWitness ==
    /\ op = "BtcDecode"
    /\ pver = AddrV2Version - 1
    /\ r = <<1>> \o serializedIPv4NetAddressBytes
    /\ AddrList = <<ipv6Address, torv3Address>>

\* C9: for each of the six mixing message kinds and every pver < MixVersion,
\* BtcEncode and BtcDecode fail with ErrMsgInvalidForPVer, BtcEncode having
\* written no byte and BtcDecode having read none, and BtcDecode leaves
\* every field of the receiver as it was.
MixVersionGate ==
    /\ [](op = "MixBtcEncode" /\ pver < MixVersion
            => err = ErrMsgInvalidForPVer /\ w = <<>>)
    /\ [](op = "MixBtcDecode" /\ pver < MixVersion
            => err = ErrMsgInvalidForPVer /\ rpos = 0)
    /\ [][op' = "MixBtcDecode" /\ pver' < MixVersion => mixMsg' = mixMsg]_vars

MixVersionGateWitness ==
    /\ op = "MixBtcDecode"
    /\ pver = MixVersion - 1
    /\ mixMsg.kind = "MsgMixSR"
    /\ mixMsg # ZeroMsgMixSR
    /\ Len(r) > 0

\* C10: when AddrV2Version <= pver < RelayTORv3Version, BtcEncode of a list
\* of 1 to 1000 records that holds a TORv3 record and BtcDecode of an input
\* that holds a TORv3 record fail with ErrInvalidMsg; when pver >=
\* RelayTORv3Version both succeed, and the 32 bytes of a TORv3 address are
\* the same after BtcEncode followed by BtcDecode.
TORv3Relay ==
    /\ [](( /\ op = "BtcEncode"
            /\ Len(AddrList) \in 1..MaxAddrPerV2Msg
            /\ HasTORv3(AddrList) )
          => /\ ((pver >= AddrV2Version /\ pver < RelayTORv3Version)
                   => err = ErrInvalidMsg)
             /\ ((pver >= RelayTORv3Version /\ ValidList(AddrList, pver))
                   => err = nil))
    /\ [](op = "BtcDecode" /\ r = multiAddrWire =>
            /\ ((pver >= AddrV2Version /\ pver < RelayTORv3Version)
                  => err = ErrInvalidMsg)
            /\ (pver >= RelayTORv3Version
                  => (err = nil /\ AddrList[3].Type = TORv3Address
                                /\ AddrList[3].IP = torV3IpBytes)))
    /\ [][( /\ op = "BtcEncode"
            /\ err = nil
            /\ HasTORv3(AddrList)
            /\ op' = "BtcDecode"
            /\ r' = w )
          => /\ ((pver' >= AddrV2Version /\ pver' < RelayTORv3Version)
                   => err' = ErrInvalidMsg)
             /\ (pver' >= RelayTORv3Version
                   => /\ err' = nil
                      /\ Len(AddrList') = Len(AddrList)
                      /\ \A i \in 1..Len(AddrList) :
                           (AddrList[i].Type = TORv3Address /\ Len(AddrList[i].IP) = 32)
                           => /\ AddrList'[i].Type = TORv3Address
                              /\ AddrList'[i].IP = AddrList[i].IP)]_vars

TORv3RelayWitness ==
    /\ op = "BtcDecode"
    /\ pver = RelayTORv3Version - 1
    /\ err = ErrInvalidMsg
    /\ r = <<1>> \o serializedTORv3NetAddressBytes

\* the width of the address field of a record of kind t
addressWidth(t) ==
    IF t = IPv4Address THEN 4 ELSE IF t = IPv6Address THEN 16 ELSE 32

\* the number of bytes of a wire image before record i of list, records of
\* 19 bytes plus their address following a count of size bytes
RECURSIVE recordOffset(_, _, _)
recordOffset(list, size, i) ==
    IF i = 1 THEN size
    ELSE recordOffset(list, size, i - 1) + 19 + addressWidth(list[i - 1].Type)

\* record na lies in b from offset o on: timestamp, services, kind, address
\* (as long as its kind says) and port, in that order
RecordAt(b, o, na) ==
    LET width == addressWidth(na.Type) IN
    /\ Len(b) >= o + 19 + width
    /\ SubSeq(b, o + 1, o + 8) = putLE(na.Timestamp.sec, 8)
    /\ SubSeq(b, o + 9, o + 16) = putLE(na.Services, 8)
    /\ b[o + 17] = na.Type
    /\ Len(na.IP) = width => SubSeq(b, o + 18, o + 17 + width) = na.IP
    /\ SubSeq(b, o + 18 + width, o + 19 + width) = putLE(na.Port, 2)

\* b is the count of list followed by its records in order, and nothing else
ListAt(b, list) ==
    LET size == VarIntSerializeSize(Len(list)) IN
    /\ SubSeq(b, 1, size) = WriteVarInt(Len(list))
    /\ \A i \in 1..Len(list) : RecordAt(b, recordOffset(list, size, i), list[i])
    /\ Len(b) = recordOffset(list, size, Len(list) + 1)

\* C11: a record is written as timestamp (8 bytes, signed little-endian Unix
\* seconds), services (8 bytes), kind (1 byte), address (4, 16 or 32 bytes by
\* kind) and port (2 bytes), in that order, and BtcDecode reads the same
\* order; the IPv4 test record is written as the 23 bytes of
\* serializedIPv4NetAddressBytes; a MsgAddrV2 is written as its compact-size
\* count followed by its records in list order.
WireLayout ==
    /\ (op = "BtcEncode" /\ err = nil /\ Short(AddrList)) => ListAt(w, AddrList)
    /\ (op = "BtcEncode" /\ err = nil /\ AddrList = <<ipv4Address>>)
         => w = <<1>> \o serializedIPv4NetAddressBytes
    /\ (op = "BtcDecode" /\ err = nil /\ Short(AddrList))
         => ListAt(SubSeq(r, 1, rpos), AddrList)

WireLayoutWitness ==
    /\ op = "BtcEncode"
    /\ err = nil
    /\ AddrList = <<ipv4Address, ipv6Address, torv3Address>>
    /\ w = multiAddrWire

\* C12, as stated: the maximum payload size of one network address record
\* is 32 bytes for every pver below RelayTORv3Version and 51 bytes for every
\* pver at or above it.
RecordMaxIs32Or51 ==
    op = "maxNetAddressPayloadV2" =>
        ret = (IF pver < RelayTORv3Version THEN 32 ELSE 51)

\* C12, amended: the maximum payload size of one network address record is
\* 35 bytes (8 + 8 + 1 + 16 + 2) for every pver below RelayTORv3Version and
\* 51 bytes (8 + 8 + 1 + 32 + 2) for every pver at or above it.
RecordMaxIs35Or51 ==
    op = "maxNetAddressPayloadV2" =>
        ret = (IF pver < RelayTORv3Version THEN 35 ELSE 51)

RecordMaxWitness ==
    /\ op = "maxNetAddressPayloadV2"
    /\ pver = RelayTORv3Version - 1
    /\ ret = 35

\* C13: MsgAddrV2.MaxPayloadLength(pver) is 0 exactly when pver <
\* AddrV2Version, the versions at which BtcEncode and BtcDecode reject the
\* message; it is 35003 when AddrV2Version <= pver < RelayTORv3Version and
\* 51003 when pver >= RelayTORv3Version, which is the size of the
\* compact-size form of 1000 plus 1000 times the maximum of one record.
MaxPayloadLengthValues ==
    /\ op = "MaxPayloadLength" =>
         /\ ret = (IF pver < AddrV2Version THEN 0
                   ELSE IF pver < RelayTORv3Version THEN 35003 ELSE 51003)
         /\ (ret = 0 <=> pver < AddrV2Version)
         /\ (ret # 0 => ret = Len(WriteVarInt(MaxAddrPerV2Msg))
                              + MaxAddrPerV2Msg * maxNetAddressPayloadV2(pver))
    /\ op \in {"BtcEncode", "BtcDecode"} =>
         (err = ErrMsgInvalidForPVer <=> MsgAddrV2MaxPayloadLength(pver) = 0)

MaxPayloadLengthWitness ==
    /\ op = "MaxPayloadLength"
    /\ pver = AddrV2Version
    /\ ret = 35003


\* the address is loopback or in 0.0.0.0/8, stated on its bytes
LocalBytes(a) ==
    \/ a.BitLen = 32 /\ a.b[1] \in {0, 127}
    \/ a.BitLen = 128 /\ SubSeq(a.b, 1, 15) = Zeros(15) /\ a.b[16] = 1

\* the address is unspecified (0.0.0.0 or ::) or 255.255.255.255
InvalidBytes(a) ==
    \/ a.BitLen = 32 /\ a.b \in {<<0, 0, 0, 0>>, <<255, 255, 255, 255>>}
    \/ a.BitLen = 128 /\ a.b = Zeros(16)

\* the address is in the onion block fd87:d87e:eb43::/48
OnionBytes(a) ==
    a.BitLen = 128 /\ SubSeq(a.b, 1, 6) = <<253, 135, 216, 126, 235, 67>>

\* the address lies in RFC1918, RFC2544, RFC3927, RFC3849, RFC4843, RFC5737,
\* RFC6598, or in RFC4193 outside the onion block, stated on its bytes
ReservedBytes(a) ==
    \/ /\ a.BitLen = 32
       /\ \/ a.b[1] = 10
          \/ a.b[1] = 172 /\ a.b[2] \in 16..31
          \/ a.b[1] = 192 /\ a.b[2] = 168
          \/ a.b[1] = 198 /\ a.b[2] \in 18..19
          \/ a.b[1] = 169 /\ a.b[2] = 254
          \/ SubSeq(a.b, 1, 3) \in {<<192, 0, 2>>, <<198, 51, 100>>, <<203, 0, 113>>}
          \/ a.b[1] = 100 /\ a.b[2] \in 64..127
    \/ /\ a.BitLen = 128
       /\ \/ SubSeq(a.b, 1, 4) = <<32, 1, 13, 184>>
          \/ SubSeq(a.b, 1, 3) = <<32, 1, 0>> /\ a.b[4] \in 16..31
          \/ a.b[1] \in {252, 253} /\ ~OnionBytes(a)

\* the address is in the link-local block fe80::/64
LinkLocalBytes(a) ==
    a.BitLen = 128 /\ SubSeq(a.b, 1, 8) = <<254, 128, 0, 0, 0, 0, 0, 0>>

\* C14, as stated: IsRoutable is false exactly for the invalid (the zero Addr,
\* the unspecified addresses and 255.255.255.255), the local, and the
\* addresses of the listed blocks (RFC1918, RFC2544, RFC3927, RFC3849, RFC4843,
\* RFC5737, RFC6598, RFC4193 outside the onion block), and true for every
\* other address.
RoutableUnlessListed ==
    op = "IsRoutable" =>
        (ret = FALSE <=>
            \/ arg[1] = zeroAddr
            \/ InvalidBytes(arg[1])
            \/ LocalBytes(arg[1])
            \/ ReservedBytes(arg[1]))

\* C14, amended: IsRoutable is false exactly for the zero Addr, the unspecified
\* addresses, 255.255.255.255, the local addresses, the addresses of the
\* listed blocks and those of the link-local block fe80::/64 (RFC4862); an
\* IPv4 block holds 4-byte IPv4 addresses only.  It is true for every other
\* address.
RoutableUnlessListedOrLinkLocal ==
    op = "IsRoutable" =>
        (ret = FALSE <=>
            \/ arg[1] = zeroAddr
            \/ InvalidBytes(arg[1])
            \/ LocalBytes(arg[1])
            \/ ReservedBytes(arg[1])
            \/ LinkLocalBytes(arg[1]))

\* IsRoutable has answered false for a link-local address
RoutableWitness ==
    /\ op = "IsRoutable"
    /\ LinkLocalBytes(arg[1])
    /\ ret = FALSE

\* C15: for an address of the onion block fd87:d87e:eb43::/48, GroupKey
\* returns "tor:" followed by the decimal value of the first 4 bits of the
\* onion key, the key starting at byte offset 6 of the address; so two onion
\* addresses have the same group key exactly when their keys agree on their
\* first 4 bits.
OnionGroupIsFirstFourBits ==
    (op = "GroupKey" /\ OnionBytes(arg[1])) =>
        /\ ret = "tor:" \o ToString(arg[1].b[7] \div 16)
        /\ \A other \in NetAddrs :
            OnionBytes(other) =>
                (GroupKey([IP |-> other]) = ret
                    <=> other.b[7] \div 16 = arg[1].b[7] \div 16)

\* C16: GroupKey returns "local" for every local address, routable or not by
\* the other tests; "unroutable" for every address that is not local and for
\* which IsRoutable is false; and for every routable IPv4 address a.b.c.d the
\* string "a.b.0.0", so that two routable IPv4 addresses share a group key
\* exactly when their first two bytes are equal.
GroupKeyLocalUnroutableIPv4 ==
    op = "GroupKey" =>
        LET a == arg[1] IN
        /\ LocalBytes(a) => ret = "local"
        /\ (~LocalBytes(a) /\ ~IsRoutable(a)) => ret = "unroutable"
        /\ (a.BitLen = 32 /\ ~LocalBytes(a) /\ IsRoutable(a)) =>
            /\ ret = ToString(a.b[1]) \o "." \o ToString(a.b[2]) \o ".0.0"
            /\ \A other \in NetAddrs :
                (other.BitLen = 32 /\ IsRoutable(other)) =>
                    (GroupKey([IP |-> other]) = ret
                        <=> SubSeq(other.b, 1, 2) = SubSeq(a.b, 1, 2))
        /\ a = AddrFrom4(<<127, 0, 0, 1>>) => ret = "local"
        /\ a = AddrFrom4(<<8, 8, 8, 8>>) => ret = "8.8.0.0"
        /\ a = AddrFrom4(<<10, 0, 0, 1>>) => ret = "unroutable"

\* GroupKey has answered for 8.8.8.8 while another routable IPv4 address of
\* the universe has the same first two bytes
GroupKeyIPv4Witness ==
    /\ op = "GroupKey"
    /\ arg[1] = AddrFrom4(<<8, 8, 8, 8>>)
    /\ ret = "8.8.0.0"
    /\ \E other \in NetAddrs :
        other # arg[1] /\ other.BitLen = 32 /\ GroupKey([IP |-> other]) = ret


\* C17: addressType is total and returns LocalAddress for a loopback address
\* or an address of 0.0.0.0/8, otherwise IPv4Address for an IPv4 address,
\* otherwise TORv2Address for an address of fd87:d87e:eb43::/48, otherwise
\* IPv6Address; ::1 and 127.0.0.1 are both local.
AddressTypeOrder ==
    op = "addressType" =>
        LET a == arg[1] IN
        /\ ret \in {LocalAddress, IPv4Address, IPv6Address, TORv2Address}
        /\ ret = (IF LocalBytes(a) THEN LocalAddress
                  ELSE IF a.BitLen = 32 THEN IPv4Address
                  ELSE IF OnionBytes(a) THEN TORv2Address
                  ELSE IPv6Address)
        /\ a \in {AddrFrom4(<<127, 0, 0, 1>>),
                  AddrFrom16([i \in 1..16 |-> IF i = 16 THEN 1 ELSE 0])}
            => ret = LocalAddress

\* addressType has answered LocalAddress for the IPv4 loopback address
AddressTypeWitness ==
    /\ op = "addressType"
    /\ arg[1] = AddrFrom4(<<127, 0, 0, 1>>)
    /\ ret = LocalAddress


\* C18: each of the six mixing messages returns 0 from MaxPayloadLength for
\* every protocol version, the versions at which its BtcEncode and BtcDecode
\* accept the message included.
MixMaxPayloadLengthIsZero ==
    /\ op = "MixMaxPayloadLength" => ret = 0
    /\ (op \in {"MixBtcEncode", "MixBtcDecode"} /\ err = nil) =>
          (pver >= MixVersion /\ MixMaxPayloadLength(mixMsg, pver) = 0)

\* MaxPayloadLength has been asked of a message at a version at which it is
\* encoded
MixMaxPayloadLengthWitness ==
    /\ op = "MixMaxPayloadLength"
    /\ pver >= MixVersion
    /\ mixMsg.kind = "MsgMixPR"
    /\ MixBtcEncode(mixMsg, pver).err = nil
    /\ ret = 0


\* C19: BtcDecode at pver >= AddrV2Version reads the count first.  When the
\* count is 0 or greater than 1000 it fails having consumed the bytes of the
\* count and no other, and leaves AddrList as it was.  When it succeeds it has
\* consumed the bytes of the count and, for each of the count records, 19
\* bytes plus the address width of its kind, and no byte after them.
DecodeConsumption ==
    /\ [](LET c == ReadVarInt(r, 0)
              n == Len(AddrList)
              widths == 4 * Cardinality({i \in 1..n : AddrList[i].Type = IPv4Address})
                        + 16 * Cardinality({i \in 1..n : AddrList[i].Type = IPv6Address})
                        + 32 * Cardinality({i \in 1..n : AddrList[i].Type = TORv3Address})
          IN  (op = "BtcDecode" /\ pver >= AddrV2Version /\ c.err = nil) =>
                /\ c.val = 0 => (err = ErrTooFewAddrs /\ rpos = c.pos)
                /\ c.val > MaxAddrPerV2Msg => (err = ErrTooManyAddrs /\ rpos = c.pos)
                /\ c.pos = (IF r[1] < 253 THEN 1 ELSE IF r[1] = 253 THEN 3
                            ELSE IF r[1] = 254 THEN 5 ELSE 9)
                /\ err = nil =>
                     /\ c.val = n
                     /\ rpos = c.pos + 19 * n + widths
                     /\ rpos <= Len(r))
    /\ [][(op' = "BtcDecode" /\ pver' >= AddrV2Version
             /\ err' \in {ErrTooFewAddrs, ErrTooManyAddrs})
            => AddrList' = AddrList]_vars

\* BtcDecode has stopped at a count of 1001 that records follow, the receiver
\* holding a record
DecodeConsumptionWitness ==
    /\ op = "BtcDecode"
    /\ pver >= AddrV2Version
    /\ err = ErrTooManyAddrs
    /\ rpos = 3
    /\ Len(r) > 3
    /\ AddrList # <<>>

\* C20: after every successful BtcDecode each record of AddrList has a Type
\* among IPv4Address, IPv6Address and TORv3Address and an IP of 4, 16 or 32
\* bytes accordingly, the number of records is the count that was read (the
\* AddAddress of the loop never fails), and a TORv3Address record is present
\* only if pver >= RelayTORv3Version.
DecodedRecords ==
    (op = "BtcDecode" /\ err = nil) =>
        /\ \A i \in 1..Len(AddrList) :
              /\ AddrList[i].Type \in {IPv4Address, IPv6Address, TORv3Address}
              /\ Len(AddrList[i].IP) =
                    (CASE AddrList[i].Type = IPv4Address -> 4
                       [] AddrList[i].Type = IPv6Address -> 16
                       [] AddrList[i].Type = TORv3Address -> 32)
        /\ Len(AddrList) = ReadVarInt(r, 0).val
        /\ Len(AddrList) \in 1..MaxAddrPerV2Msg
        /\ HasTORv3(AddrList) => pver >= RelayTORv3Version

\* BtcDecode has succeeded on records of several kinds, TORv3Address among
\* them
DecodedRecordsWitness ==
    /\ op = "BtcDecode"
    /\ err = nil
    /\ Len(AddrList) > 1
    /\ HasTORv3(AddrList)
    /\ \E i \in 1..Len(AddrList) : AddrList[i].Type = IPv4Address

\* C21: for a routable IPv6 address GroupKey returns the /16 "a.b.0.0" of the
\* IPv4 address in its last four bytes when it lies in the RFC6145 or RFC6052
\* block, of the IPv4 address in its bytes 2 to 5 when it lies in 2002::/16,
\* of the IPv4 address got by XOR-ing its last four bytes with 0xFF when it
\* lies in 2001::/32; otherwise, when it is not an onion address, the address
\* masked to /36 when it lies in 2001:470::/32 and to /32 in all other cases.
GroupKeyIPv6 ==
    (op = "GroupKey" /\ arg[1].BitLen = 128 /\ IsRoutable(arg[1])) =>
        LET b == arg[1].b
            slash16(b1, b2) == ToString(b1) \o "." \o ToString(b2) \o ".0.0"
            \* the address with its bytes after the first n cleared
            kept(n) == AddrFrom16([i \in 1..16 |-> IF i <= n THEN b[i] ELSE 0])
        IN  /\ ret =
                (IF SubSeq(b, 1, 12) \in {<<0, 0, 0, 0, 0, 0, 0, 0, 255, 255, 0, 0>>,
                                          <<0, 100, 255, 155, 0, 0, 0, 0, 0, 0, 0, 0>>}
                 THEN slash16(b[13], b[14])
                 ELSE IF SubSeq(b, 1, 2) = <<32, 2>> THEN slash16(b[3], b[4])
                 ELSE IF SubSeq(b, 1, 4) = <<32, 1, 0, 0>>
                 THEN slash16(255 - b[13], 255 - b[14])
                 ELSE IF OnionBytes(arg[1]) THEN ret
                 ELSE IF SubSeq(b, 1, 4) = <<32, 1, 4, 112>>
                 THEN String([kept(5) EXCEPT !.b[5] = (b[5] \div 16) * 16])
                 ELSE String(kept(4)))
            /\ b = FromGroups(<<8193, 1136, 4660, 0, 0, 0, 0, 1>>).b => ret = "2001:470:1000::"
            /\ b = FromGroups(<<8193, 18528, 18528, 0, 0, 0, 0, 34952>>).b => ret = "2001:4860::"
            /\ b = FromGroups(<<8193, 0, 4660, 0, 0, 0, 63479, 63479>>).b => ret = "8.8.0.0"
            /\ b = FromGroups(<<8194, 2056, 2056, 0, 0, 0, 0, 1>>).b => ret = "8.8.0.0"

\* GroupKey has answered for a Teredo address
GroupKeyIPv6Witness ==
    /\ op = "GroupKey"
    /\ IsRoutable(arg[1])
    /\ SubSeq(arg[1].b, 1, 4) = <<32, 1, 0, 0>>
    /\ ret = "8.8.0.0"

\* C22: when BtcDecode passes the version and count checks and then fails at
\* record number i (counted from 0), on truncated input or an unsupported
\* kind, it returns that error, reads nothing after the failing read, and
\* leaves in AddrList the i records read before the failure, in wire order;
\* what AddrList held before the call is gone.
DecodeFailureKeepsPrefix ==
    LET c == ReadVarInt(r, 0) IN
    (op = "BtcDecode" /\ pver >= AddrV2Version /\ c.err = nil
        /\ c.val \in 1..MaxAddrPerV2Msg /\ err # nil) =>
        LET i == Len(AddrList)
            \* the offset of record number i
            off == recordOffset(AddrList, c.pos, i + 1)
            kind == r[off + 17]
            supported == \/ kind \in {IPv4Address, IPv6Address}
                         \/ kind = TORv3Address /\ pver >= RelayTORv3Version
        IN  /\ i < c.val
            /\ \A j \in 1..i :
                 /\ RecordAt(r, recordOffset(AddrList, c.pos, j), AddrList[j])
                 /\ Len(AddrList[j].IP) = addressWidth(AddrList[j].Type)
            /\ IF Len(r) >= off + 17 /\ ~supported
               THEN err = ErrInvalidMsg /\ rpos = off + 17
               ELSE /\ err \in {ioEOF, ioErrUnexpectedEOF}
                    /\ rpos = Len(r)
                    /\ Len(r) < off + 17 \/ Len(r) < off + 19 + addressWidth(kind)

\* BtcDecode has failed on truncated input at its second record and holds the
\* first
DecodeFailureWitness ==
    /\ op = "BtcDecode"
    /\ err = ioErrUnexpectedEOF
    /\ AddrList = <<ipv6Address>>
    /\ r[1] = 2

EncodeIgnoresIPLength ==
    op = "BtcEncode" =>
        LET n == Len(AddrList)
            supported(t) == \/ t \in {IPv4Address, IPv6Address}
                            \/ t = TORv3Address /\ pver >= RelayTORv3Version
            count(t) == Cardinality({i \in 1..n : AddrList[i].Type = t})
            size == Len(WriteVarInt(n))
        IN  /\ err = nil <=>
                 /\ pver >= AddrV2Version
                 /\ n \in 1..MaxAddrPerV2Msg
                 /\ \A i \in 1..n : supported(AddrList[i].Type)
            /\ err = nil =>
                 Len(w) = size + 19 * n + 4 * count(IPv4Address)
                          + 16 * count(IPv6Address) + 32 * count(TORv3Address)
            /\ (err = nil /\ Short(AddrList)) =>
                 LET back == MsgAddrV2BtcDecode(<<>>, w, pver) IN
                 /\ back.err = nil
                 /\ Len(back.list) = n
                 /\ \A i \in 1..n :
                      LET na == AddrList[i]
                          o == recordOffset(AddrList, size, i)
                          written == SubSeq(w, o + 18, o + 17 + addressWidth(na.Type))
                      IN  /\ na.Type = IPv4Address =>
                                written = [k \in 1..4 |-> IF k <= Len(na.IP)
                                                          THEN na.IP[k] ELSE 0]
                          /\ (na.Type = TORv3Address /\ Len(na.IP) # 32) =>
                                written = Zeros(32)
                          /\ (na.Type = TORv3Address /\ Len(na.IP) = 32) =>
                                written = na.IP
                          /\ w[o + 17] = na.Type
                          /\ back.list[i].IP = written
                          /\ Len(na.IP) # addressWidth(na.Type) => back.list[i] # na

\* BtcEncode has written a list holding an IPv4 record with a nil IP, one with
\* 16 bytes of IP and a TORv3 record with 4 bytes of IP
EncodeIgnoresIPLengthWitness ==
    /\ op = "BtcEncode"
    /\ err = nil
    /\ \E i, j, k \in 1..Len(AddrList) :
        /\ AddrList[i] = nilIPv4Address
        /\ AddrList[j] = longIPv4Address
        /\ AddrList[k] = shortTORv3Address

\* C25: BtcEncode is atomic only for its version and count checks: when it
\* fails with ErrMsgInvalidForPVer, ErrTooManyAddrs or ErrTooFewAddrs the
\* writer has received no byte, but when it fails with ErrInvalidMsg on
\* record i because of an unsupported kind, the writer has received the count
\* prefix, the records before record i in full, and the 17 bytes of
\* timestamp, services and kind of record i.
EncodePartialWrite ==
    op = "BtcEncode" =>
        LET n == Len(AddrList)
            size == Len(WriteVarInt(n))
            unsupported == {i \in 1..n :
                              ~ \/ AddrList[i].Type \in {IPv4Address, IPv6Address}
                                \/ /\ AddrList[i].Type = TORv3Address
                                   /\ pver >= RelayTORv3Version}
        IN  /\ err \in {ErrMsgInvalidForPVer, ErrTooManyAddrs, ErrTooFewAddrs} => w = <<>>
            /\ err = ErrInvalidMsg <=>
                 /\ pver >= AddrV2Version
                 /\ n \in 1..MaxAddrPerV2Msg
                 /\ unsupported # {}
            /\ err = ErrInvalidMsg =>
                 LET i == CHOOSE k \in unsupported : \A l \in unsupported : k <= l IN
                 i <= MaxShort =>
                    LET o == recordOffset(AddrList, size, i)
                        na == AddrList[i]
                    IN  /\ Len(w) = o + 17
                        /\ SubSeq(w, 1, size) = WriteVarInt(n)
                        /\ \A j \in 1..(i - 1) :
                             RecordAt(w, recordOffset(AddrList, size, j), AddrList[j])
                        /\ SubSeq(w, o + 1, o + 17) =
                             putLE(na.Timestamp.sec, 8) \o putLE(na.Services, 8)
                             \o <<na.Type>>

\* BtcEncode has failed with ErrInvalidMsg on the second record of a list,
\* after the count, the first record and 17 bytes of the second
EncodePartialWriteWitness ==
    /\ op = "BtcEncode"
    /\ err = ErrInvalidMsg
    /\ Len(AddrList) >= 2
    /\ AddrList[1].Type = IPv4Address
    /\ InvalidKind(AddrList[2].Type)
    /\ Len(w) = 1 + 23 + 17

\* C26: whenever BtcEncode succeeds at pver, the number of bytes written is
\* at most MaxPayloadLength(pver): no record the encoder accepts at pver is
\* longer than maxNetAddressPayloadV2(pver) bytes, and no more than 1000
\* records are written.
EncodeWithinMaxPayload ==
    (op = "BtcEncode" /\ err = nil) =>
        LET n == Len(AddrList)
            size == Len(WriteVarInt(n))
        IN  /\ Len(w) <= MsgAddrV2MaxPayloadLength(pver)
            /\ n <= MaxAddrPerV2Msg
            /\ size <= VarIntSerializeSize(MaxAddrPerV2Msg)
            /\ Len(w) - size <= n * maxNetAddressPayloadV2(pver)
            /\ \A i \in 1..n :
                 LET rec == writeNetAddressV2(pver, AddrList[i]) IN
                 /\ rec.err = nil
                 /\ Len(rec.out) <= maxNetAddressPayloadV2(pver)
                 /\ Len(rec.out) = 19 + addressWidth(AddrList[i].Type)

\* BtcEncode has written a list of 1000 records that holds a TORv3 record,
\* which is as long as maxNetAddressPayloadV2 allows
EncodeWithinMaxPayloadWitness ==
    /\ op = "BtcEncode"
    /\ err = nil
    /\ Len(AddrList) = MaxAddrPerV2Msg
    /\ HasTORv3(AddrList)

====
